---- MODULE Spec2Model ----
\* Verification development for the OCID Connect React Native SDK:
\* the JWT verification core (jwks.js, jwtVerifier.js, verifyToken.js) and the
\* token exchange of TokenManager.js.
EXTENDS Integers, Sequences, FiniteSets, TLC

\* ---------------------------------------------------------------- JS values
\* A JSON/JavaScript value: its typeof tag, number, string and array content.
Undef == [t |-> "undefined", n |-> 0, s |-> "", a |-> <<>>]

Num(n) == [t |-> "number", n |-> n, s |-> "", a |-> <<>>]

Str(s) == [t |-> "string", n |-> 0, s |-> s, a |-> <<>>]

Arr(a) == [t |-> "array", n |-> 0, s |-> "", a |-> a]

\* JavaScript truthiness, as used by if (header.kid), if (options.expectedIssuer).
Truthy(v) ==
    \/ v.t = "array"
    \/ v.t = "string" /\ v.s # ""
    \/ v.t = "number" /\ v.n # 0

\* ---------------------------------------------------------------- time
\* Date.now() is in milliseconds; the claims of a token are in seconds.
CACHE_TTL == 60 * 60 * 1000

\* First instant of the model (milliseconds).
T0 == 10000

\* AbortSignal.timeout(10000): the key set request is aborted after 10 s.
FETCH_TIMEOUT == 10000

\* The instants the clock visits: the first one, the next second, the last
\* instant at which an entry stored at T0 is still fresh, and the first one at
\* which it is stale.
Instants ==
    {T0, T0 + 1000, T0 + CACHE_TTL, T0 + CACHE_TTL + 1}

\* Math.floor(Date.now() / 1000)
NowSeconds(ms) == ms \div 1000

\* The largest time value a Date can hold (8.64e15 ms in ECMAScript), scaled
\* to the integers of the checker; new Date(v).toISOString() throws a
\* RangeError for a larger v.
MAX_TIME_VALUE == 2000000000

\* new Date(exp * 1000).toISOString() does not throw
DateInRange(v) == v.t = "number" /\ v.n * 1000 <= MAX_TIME_VALUE

\* ---------------------------------------------------------------- keys
\* A JWK: kty, crv, kid and its coordinates: mat names the key pair the
\* coordinates x, y belong to, "missing" a JWK without usable coordinates.
K1 == [kty |-> "EC", crv |-> "P-256", kid |-> "k1", mat |-> "m1"]

K2 == [kty |-> "EC", crv |-> "P-256", kid |-> "k2", mat |-> "m2"]

KRsa == [kty |-> "RSA", crv |-> "", kid |-> "k3", mat |-> "m3"]

KP384 == [kty |-> "EC", crv |-> "P-384", kid |-> "k4", mat |-> "m4"]

KBad == [kty |-> "EC", crv |-> "P-256", kid |-> "k5", mat |-> "missing"]

NoKey == [kty |-> "", crv |-> "", kid |-> "", mat |-> "none"]

\* The key sets the endpoint serves ({keys: [...]}).
KeySets ==
    { <<K1, K2>>, <<K2>>, <<>>, <<KRsa, K1>>, <<KP384, KBad, K1>> }

\* The key set URLs (JWKS_SANDBOX_URL, JWKS_LIVE_URL).
JWKS_SANDBOX_URL == "https://static.opencampus.xyz/jwks/jwks-sandbox.json"

JWKS_LIVE_URL == "https://static.opencampus.xyz/jwks/jwks-live.json"

Urls == {JWKS_SANDBOX_URL, JWKS_LIVE_URL}

\* A key of the live environment.
KLive == [kty |-> "EC", crv |-> "P-256", kid |-> "k1", mat |-> "m6"]

\* The key sets each endpoint serves when fetchJWKS is called on its own: the
\* two environments share no key set.
Served(url) ==
    IF url = JWKS_SANDBOX_URL THEN {<<K1, K2>>, <<K2>>} ELSE {<<KLive>>, <<KLive, KP384>>}

\* ---------------------------------------------------------------- tokens
\* An encoded header segment: enc says whether it base64url-decodes to
\* parseable JSON, val whether that JSON is an object or null, raw which of
\* several encodings of the same JSON the segment is.
Hdr(alg, kid) == [enc |-> "json", val |-> "object", raw |-> "a", alg |-> alg, kid |-> kid]

HdrGarbage == [enc |-> "garbage", val |-> "object", raw |-> "a", alg |-> Undef, kid |-> Undef]

HdrNull == [enc |-> "json", val |-> "null", raw |-> "a", alg |-> Undef, kid |-> Undef]

\* An empty header segment.
HdrEmpty == [enc |-> "empty", val |-> "object", raw |-> "a", alg |-> Undef, kid |-> Undef]

\* An encoded payload segment.
Pl(exp, nbf, iat, iss, aud) ==
    [enc |-> "json", val |-> "object", raw |-> "a",
     exp |-> exp, nbf |-> nbf, iat |-> iat, iss |-> iss, aud |-> aud]

PlGarbage ==
    [enc |-> "garbage", val |-> "object", raw |-> "a",
     exp |-> Undef, nbf |-> Undef, iat |-> Undef, iss |-> Undef, aud |-> Undef]

PlNull ==
    [enc |-> "json", val |-> "null", raw |-> "a",
     exp |-> Undef, nbf |-> Undef, iat |-> Undef, iss |-> Undef, aud |-> Undef]

\* An empty payload segment.
PlEmpty ==
    [enc |-> "empty", val |-> "object", raw |-> "a",
     exp |-> Undef, nbf |-> Undef, iat |-> Undef, iss |-> Undef, aud |-> Undef]

\* The signing input of two encoded segments: `${parts[0]}.${parts[1]}`.
SigningInput(h, p) == <<h, p>>

\* An encoded signature segment: dec says whether it base64url-decodes, len is
\* the number of bytes it decodes to, and the bytes are an ECDSA signature made
\* with the private key of key pair signer over the message over.
Sig(dec, len, signer, over) == [dec |-> dec, len |-> len, signer |-> signer, over |-> over]

\* An empty signature segment: it decodes to no bytes.
SigEmpty == Sig(TRUE, 0, "nobody", <<>>)

\* A token: n segments between its dots, the first three being hdr, pl, sig;
\* n = 0 stands for an argument that is no string (undefined, null).
Token(n, h, p, sg) == [n |-> n, hdr |-> h, pl |-> p, sig |-> sg]

\* A token of three segments signed over its own signing input by signer.
Signed(h, p, signer) == Token(3, h, p, Sig(TRUE, 64, signer, SigningInput(h, p)))

\* SHA-256 of a message (collision free: the digest determines the message).
Sha256(message) == [sha256 |-> message]

\* elliptic's key.verify(hash, {r, s}): (r, s) is a signature of hash under
\* the public key with coordinates mat.
EcVerify(hash, sg, mat) == sg.signer = mat /\ Sha256(sg.over) = hash

\* ---------------------------------------------------------------- errors
\* An Error: its message up to the first ':' and the interpolated rest.
Err(msg, detail) == [msg |-> msg, detail |-> detail]

NoErr == Err("", <<>>)

\* A decodeJWT that builds the message from the parsed header and payload,
\* encoded again.
decodeJWT_Reencode(token) ==
    IF token.n = 0
    THEN [ok |-> FALSE, err |-> Err("Cannot read properties of undefined", <<>>),
          header |-> HdrGarbage, payload |-> PlGarbage, signature |-> token.sig,
          message |-> SigningInput(HdrGarbage, PlGarbage)]
    ELSE IF token.n # 3
    THEN [ok |-> FALSE, err |-> Err("Invalid JWT format: must have 3 parts", <<>>),
          header |-> HdrGarbage, payload |-> PlGarbage, signature |-> token.sig,
          message |-> SigningInput(HdrGarbage, PlGarbage)]
    ELSE IF token.hdr.enc # "json" \/ token.pl.enc # "json"
    THEN [ok |-> FALSE, err |-> Err("Failed to decode JWT", <<"Unexpected token">>),
          header |-> HdrGarbage, payload |-> PlGarbage, signature |-> token.sig,
          message |-> SigningInput(HdrGarbage, PlGarbage)]
    ELSE [ok |-> TRUE, err |-> NoErr,
          header |-> token.hdr, payload |-> token.pl, signature |-> token.sig,
          message |-> SigningInput([token.hdr EXCEPT !.raw = "a"],
                                   [token.pl EXCEPT !.raw = "a"])]

\* A decodeJWT that asks for three parts or more.
decodeJWT_AtLeastThree(token) ==
    IF token.n = 0
    THEN [ok |-> FALSE, err |-> Err("Cannot read properties of undefined", <<>>),
          header |-> HdrGarbage, payload |-> PlGarbage, signature |-> token.sig,
          message |-> SigningInput(HdrGarbage, PlGarbage)]
    ELSE IF token.n < 3
    THEN [ok |-> FALSE, err |-> Err("Invalid JWT format: must have 3 parts", <<>>),
          header |-> HdrGarbage, payload |-> PlGarbage, signature |-> token.sig,
          message |-> SigningInput(HdrGarbage, PlGarbage)]
    ELSE IF token.hdr.enc # "json" \/ token.pl.enc # "json"
    THEN [ok |-> FALSE, err |-> Err("Failed to decode JWT", <<"Unexpected token">>),
          header |-> HdrGarbage, payload |-> PlGarbage, signature |-> token.sig,
          message |-> SigningInput(HdrGarbage, PlGarbage)]
    ELSE [ok |-> TRUE, err |-> NoErr,
          header |-> token.hdr, payload |-> token.pl, signature |-> token.sig,
          message |-> SigningInput(token.hdr, token.pl)]

\* ---------------------------------------------------------------- decodeJWT
\* decodeJWT(token): the header, payload, signature and message, or the
\* Error it throws.
decodeJWT(token) ==
    IF token.n = 0
    THEN [ok |-> FALSE, err |-> Err("Cannot read properties of undefined", <<>>),
          header |-> HdrGarbage, payload |-> PlGarbage, signature |-> token.sig,
          message |-> SigningInput(HdrGarbage, PlGarbage)]
    ELSE IF token.n # 3
    THEN [ok |-> FALSE, err |-> Err("Invalid JWT format: must have 3 parts", <<>>),
          header |-> HdrGarbage, payload |-> PlGarbage, signature |-> token.sig,
          message |-> SigningInput(HdrGarbage, PlGarbage)]
    ELSE IF token.hdr.enc # "json" \/ token.pl.enc # "json"
    THEN [ok |-> FALSE, err |-> Err("Failed to decode JWT", <<"Unexpected token">>),
          header |-> HdrGarbage, payload |-> PlGarbage, signature |-> token.sig,
          message |-> SigningInput(HdrGarbage, PlGarbage)]
    ELSE [ok |-> TRUE, err |-> NoErr,
          header |-> token.hdr, payload |-> token.pl, signature |-> token.sig,
          message |-> SigningInput(token.hdr, token.pl)]

\* ---------------------------------------------------------------- jwks.js
\* findKeyInJWKS(jwks, kid): keys.find(key => key.kid === kid) || null
RECURSIVE FindFrom(_, _, _)
FindFrom(keys, kid, i) ==
    IF i > Len(keys) THEN NoKey
    ELSE IF kid.t = "string" /\ keys[i].kid = kid.s THEN keys[i]
    ELSE FindFrom(keys, kid, i + 1)

findKeyInJWKS(keys, kid) == FindFrom(keys, kid, 1)

\* A jwkToEllipticKey that does not look at the curve of an EC key.
jwkToEllipticKey_AnyCurve(jwk, coordsThrow) ==
    IF jwk.kty # "EC"
    THEN [ok |-> FALSE, err |-> Err("Unsupported key type", <<jwk.kty>>), mat |-> "none"]
    ELSE IF jwk.mat = "missing" /\ coordsThrow
    THEN [ok |-> FALSE, err |-> Err("Cannot read properties of undefined", <<>>), mat |-> "none"]
    ELSE [ok |-> TRUE, err |-> NoErr, mat |-> jwk.mat]

\* ---------------------------------------------------------------- jwkToEllipticKey
\* jwkToEllipticKey(jwk): the elliptic key, or the Error it throws; coordsThrow
\* says whether decoding unusable coordinates throws or yields a key under
\* which nothing verifies.
jwkToEllipticKey(jwk, coordsThrow) ==
    IF jwk.kty # "EC"
    THEN [ok |-> FALSE, err |-> Err("Unsupported key type", <<jwk.kty>>), mat |-> "none"]
    ELSE IF jwk.crv # "P-256"
    THEN [ok |-> FALSE, err |-> Err("Unsupported curve", <<jwk.crv>>), mat |-> "none"]
    ELSE IF jwk.mat = "missing" /\ coordsThrow
    THEN [ok |-> FALSE, err |-> Err("Cannot read properties of undefined", <<>>), mat |-> "none"]
    ELSE [ok |-> TRUE, err |-> NoErr, mat |-> jwk.mat]

\* verifySignature without the check of the signature length.
verifySignature_NoLength(message, signature, publicKey, hashOk, curveThrows) ==
    IF ~hashOk THEN FALSE
    ELSE IF ~signature.dec THEN FALSE
    ELSE IF curveThrows THEN FALSE
    ELSE signature.signer = publicKey.mat /\ signature.over = message

\* A verifySignature whose catch block returns true.
verifySignature_FailOpen(message, signature, publicKey, hashOk, curveThrows) ==
    IF ~hashOk THEN TRUE
    ELSE IF ~signature.dec THEN TRUE
    ELSE IF signature.len # 64 THEN TRUE
    ELSE IF curveThrows THEN TRUE
    ELSE EcVerify(Sha256(message), signature, publicKey.mat)

\* ---------------------------------------------------------------- verifySignature
\* verifySignature(message, signature, publicKey): hashOk says whether
\* Crypto.digestStringAsync resolved, curveThrows whether publicKey.verify
\* throws; every throw inside returns false.
verifySignature(message, signature, publicKey, hashOk, curveThrows) ==
    IF ~hashOk THEN FALSE
    ELSE IF ~signature.dec THEN FALSE
    ELSE IF signature.len # 64 THEN FALSE
    ELSE IF curveThrows THEN FALSE
    ELSE EcVerify(Sha256(message), signature, publicKey.mat)

\* ---------------------------------------------------------------- validateClaims
\* The two revisions of jwtVerifier.js in the repository: they differ in the
\* iat check, in a log line of verifyJWT and in the text of one message.
Builds == {"jwtVerifier", "jwtVerifier-draft"}

\* Whether the revision checks iat (commented out in one of them).
ChecksIat(b) == b = "jwtVerifier-draft"

\* An options object of verifyJWT.
Options(iss, aud) == [expectedIssuer |-> iss, expectedAudience |-> aud]

\* exp compared with <= instead of <.
ExpErrors_Inclusive(payload, nowS) ==
    IF payload.exp.t # "undefined"
    THEN IF payload.exp.t # "number" THEN <<"exp claim must be a number">>
         ELSE IF payload.exp.n <= nowS THEN <<"Token has expired">>
         ELSE <<>>
    ELSE <<"exp claim is required but missing">>

ExpErrors(payload, nowS) ==
    IF payload.exp.t # "undefined"
    THEN IF payload.exp.t # "number" THEN <<"exp claim must be a number">>
         ELSE IF payload.exp.n < nowS THEN <<"Token has expired">>
         ELSE <<>>
    ELSE <<"exp claim is required but missing">>

\* nbf compared with >= instead of >.
NbfErrors_Strict(payload, nowS) ==
    IF payload.nbf.t = "number" /\ payload.nbf.n >= nowS
    THEN <<"Token not yet valid (nbf claim)">>
    ELSE <<>>

NbfErrors(payload, nowS) ==
    IF payload.nbf.t # "undefined"
    THEN IF payload.nbf.t # "number" THEN <<"nbf claim must be a number">>
         ELSE IF payload.nbf.n > nowS THEN <<"Token not yet valid (nbf claim)">>
         ELSE <<>>
    ELSE <<>>

IatErrors(payload, nowS, b) ==
    IF ChecksIat(b) /\ payload.iat.t # "undefined"
    THEN IF payload.iat.t # "number" THEN <<"iat claim must be a number">>
         ELSE IF payload.iat.n > nowS THEN <<"Token issued in the future (iat claim)">>
         ELSE <<>>
    ELSE <<>>

\* An issuer rule that lets a payload without iss pass.
IssErrors_IfPresent(payload, options) ==
    IF /\ Truthy(options.expectedIssuer)
       /\ payload.iss # Undef
       /\ payload.iss # options.expectedIssuer
    THEN <<"Invalid issuer">>
    ELSE <<>>

IssErrors(payload, options) ==
    IF Truthy(options.expectedIssuer) /\ payload.iss # options.expectedIssuer
    THEN <<"Invalid issuer">>
    ELSE <<>>

\* Array.isArray(payload.aud) ? payload.aud : [payload.aud]
Audiences(aud) ==
    IF aud.t = "array" THEN [i \in DOMAIN aud.a |-> Str(aud.a[i])] ELSE <<aud>>

\* audiences.includes(x)
Includes(seq, x) == \E i \in DOMAIN seq : seq[i] = x

\* An audience rule that compares aud as a whole and knows no arrays.
AudErrors_Scalar(payload, options) ==
    IF Truthy(options.expectedAudience) /\ payload.aud # options.expectedAudience
    THEN <<"Invalid audience">>
    ELSE <<>>

AudErrors(payload, options) ==
    IF Truthy(options.expectedAudience)
       /\ ~Includes(Audiences(payload.aud), options.expectedAudience)
    THEN <<"Invalid audience">>
    ELSE <<>>

\* validateClaims(payload, options) at nowS = Math.floor(Date.now() / 1000);
\* threw: reading a claim of a null payload throws a TypeError.
validateClaims(payload, options, nowS, b) ==
    IF payload.val = "null"
    THEN [threw |-> TRUE, valid |-> FALSE, errors |-> <<>>]
    ELSE LET errors == ExpErrors(payload, nowS) \o NbfErrors(payload, nowS)
                       \o IatErrors(payload, nowS, b) \o IssErrors(payload, options)
                       \o AudErrors(payload, options)
         IN  [threw |-> FALSE, valid |-> Len(errors) = 0, errors |-> errors]

\* ---------------------------------------------------------------- JWKSCache
NoEntry == [present |-> FALSE, jwks |-> <<>>, timestamp |-> 0]

EmptyCache == [u \in Urls |-> NoEntry]

\* A cache that keeps only the first key of a key set.
JWKSCacheSet_FirstKey(c, url, jwks, nowMs) ==
    [c EXCEPT ![url] = [present |-> TRUE,
                        jwks |-> IF Len(jwks) > 1 THEN SubSeq(jwks, 1, 1) ELSE jwks,
                        timestamp |-> nowMs]]

\* A cache of one slot: what is stored is stored for every URL.
JWKSCacheSet_OneSlot(c, url, jwks, nowMs) ==
    [u \in Urls |-> [present |-> TRUE, jwks |-> jwks, timestamp |-> nowMs]]

\* A cache that keeps the entry it has: the first writer wins.
JWKSCacheSet_KeepFirst(c, url, jwks, nowMs) ==
    IF c[url].present THEN c
    ELSE [c EXCEPT ![url] = [present |-> TRUE, jwks |-> jwks, timestamp |-> nowMs]]

\* JWKSCache.set(url, jwks) at Date.now() = nowMs
JWKSCacheSet(c, url, jwks, nowMs) ==
    [c EXCEPT ![url] = [present |-> TRUE, jwks |-> jwks, timestamp |-> nowMs]]

\* A lookup for which an entry of exactly one hour is stale already.
JWKSCacheHit_Exclusive(c, url, nowMs) ==
    c[url].present /\ nowMs - c[url].timestamp < CACHE_TTL

\* Whether JWKSCache.get(url) returns the entry's key set (and not null).
JWKSCacheHit(c, url, nowMs) ==
    c[url].present /\ ~(nowMs - c[url].timestamp > CACHE_TTL)

\* A lookup that renews the timestamp of the entry it finds fresh.
JWKSCacheAfterGet_Touch(c, url, nowMs) ==
    IF c[url].present /\ nowMs - c[url].timestamp > CACHE_TTL
    THEN [c EXCEPT ![url] = NoEntry]
    ELSE IF c[url].present THEN [c EXCEPT ![url].timestamp = nowMs]
    ELSE c

\* The cache after JWKSCache.get(url): a stale entry is deleted.
JWKSCacheAfterGet(c, url, nowMs) ==
    IF c[url].present /\ nowMs - c[url].timestamp > CACHE_TTL
    THEN [c EXCEPT ![url] = NoEntry]
    ELSE c

\* ---------------------------------------------------------------- network
\* What a GET of a key set URL ends in.
Response(kind, keys) == [kind |-> kind, keys |-> keys]

\* What the network makes of the request: a key set, a status that is not ok,
\* a body that is no JSON or is null, a body without a keys array, or a
\* rejection of fetch.
Responses ==
    {Response("ok", ks) : ks \in KeySets}
        \cup {Response(k, <<>>) :
                k \in {"http-error", "bad-json", "bad-format", "network-error"}}

\* The request is aborted by the signal of AbortSignal.timeout(10000).
TimeoutResponse == Response("timeout", <<>>)

\* The Error fetchJWKS throws for a response that is not a key set.
FetchError(resp) ==
    Err("Failed to fetch JWKS",
        <<CASE resp.kind = "http-error" -> "Failed to fetch JWKS: 500"
            [] resp.kind = "bad-json" -> "JSON Parse error"
            [] resp.kind = "bad-format" -> "Invalid JWKS format: missing keys array"
            [] resp.kind = "timeout" -> "Aborted"
            [] OTHER -> "Network request failed">>)

\* ---------------------------------------------------------------- outcomes
\* What verifyJWT ends in: the object it returns (fields names its members),
\* or threw when an exception leaves it.
Outcome(threw, valid, error, fields, header, payload) ==
    [threw |-> threw, valid |-> valid, error |-> error, fields |-> fields,
     header |-> header, payload |-> payload]

NoOutcome == Outcome(FALSE, FALSE, NoErr, {}, HdrGarbage, PlGarbage)

\* return { valid: true, payload, header }
ValidOutcome(header, payload) ==
    Outcome(FALSE, TRUE, NoErr, {"valid", "payload", "header"}, header, payload)

\* A catch block that throws the error on.
Catch_Rethrow(err) == Outcome(TRUE, FALSE, err, {}, HdrGarbage, PlGarbage)

\* The catch block of verifyJWT: return { valid: false, error: error.message }
Catch(err) == Outcome(FALSE, FALSE, err, {"valid", "error"}, HdrGarbage, PlGarbage)

\* verifyToken(idToken, jwksUrl, options) given what its verifyJWT call ended
\* in: false when the result is not valid, false from its catch block when
\* the call or the logging of the payload (new Date(exp * 1000).toISOString())
\* throws, true otherwise.
verifyToken(result) ==
    IF result.threw THEN "false"
    ELSE IF ~result.valid THEN "false"
    ELSE IF ~DateInRange(result.payload.exp) THEN "false"
    ELSE "true"

\* The log line of the draft revision after decoding: payload.iss of a null
\* payload and new Date(payload.exp * 1000).toISOString() of a truthy exp that
\* is no date throw.
LogThrows(b, payload) ==
    /\ b = "jwtVerifier-draft"
    /\ \/ payload.val = "null"
       \/ Truthy(payload.exp) /\ ~DateInRange(payload.exp)

\* A message that does not tell what failed.
SignatureError_Vague(b) == Err("JWT verification failed", <<>>)

\* The message of the Error thrown for a signature that does not verify.
SignatureError(b) ==
    IF b = "jwtVerifier-draft"
    THEN Err("JWT signature verification failed", <<>>)
    ELSE Err("JWT signature verification failed - token may be forged or tampered", <<>>)

\* ---------------------------------------------------------------- inputs
ES256 == Str("ES256")

\* Seconds at the first instant.
S0 == NowSeconds(T0)

\* An exp beyond the range of Date.
HugeExp == Num(MAX_TIME_VALUE \div 1000 + 1)

\* An exp that is in the future at every instant.
LateExp == Num(NowSeconds(T0 + CACHE_TTL) + 100)

GoodPl == Pl(LateExp, Undef, Undef, Str("OpenCampus"), Str("sandbox"))

GoodHdr == Hdr(ES256, Str("k1"))

\* The same header and payload in another encoding (other spacing or key
\* order of the JSON text).
HdrOther == [GoodHdr EXCEPT !.raw = "b"]

PlOther == [GoodPl EXCEPT !.raw = "b"]

\* Payloads: one claim varied at a time around GoodPl, and several at once.
Payloads ==
    {Pl(e, Undef, Undef, Str("OpenCampus"), Str("sandbox")) :
        e \in {Undef, Str("soon"), Num(S0 - 1), Num(S0), LateExp, HugeExp}}
    \cup {Pl(LateExp, v, Undef, Str("OpenCampus"), Str("sandbox")) :
        v \in {Num(S0), Num(S0 + 1), Str("soon")}}
    \cup {Pl(LateExp, Undef, v, Str("OpenCampus"), Str("sandbox")) :
        v \in {Num(S0), Num(S0 + 1)}}
    \cup {Pl(LateExp, Undef, Undef, v, Str("sandbox")) : v \in {Undef, Str("Evil")}}
    \cup {Pl(LateExp, Undef, Undef, Str("OpenCampus"), v) :
        v \in {Undef, Str("other"), Arr(<<"other", "sandbox">>), Arr(<<"other">>)}}
    \cup {Pl(Num(S0 - 1), Undef, Undef, Str("Evil"), Str("other")),
          Pl(Num(S0 - 1), Num(S0 + 1), Num(S0 + 1), Str("Evil"), Str("other")),
          PlNull}

\* Key identifiers of a header: none, empty, of each served key, unknown.
Kids == {Undef, Str(""), Str("k1"), Str("k2"), Str("k3"), Str("k4"), Str("k5"), Str("k9")}

\* Tokens: every payload under a good header and signature; every key
\* identifier with a signature of either key or of nobody (a flipped bit);
\* signatures that are short, undecodable or made over another message;
\* other algorithms; malformed tokens; an expired token with a bad signature;
\* a token in another encoding of its JSON, signed as it is and signed over
\* the first encoding.
Tokens ==
    {Signed(GoodHdr, p, "m1") : p \in Payloads}
    \cup {Signed(Hdr(ES256, k), GoodPl, m) : k \in Kids, m \in {"m1", "m2", "nobody"}}
    \cup {Token(3, GoodHdr, GoodPl, sg) :
            sg \in {Sig(TRUE, 63, "m1", SigningInput(GoodHdr, GoodPl)),
                    Sig(FALSE, 0, "m1", SigningInput(GoodHdr, GoodPl)),
                    Sig(TRUE, 64, "m1", SigningInput(GoodHdr, Pl(HugeExp, Undef, Undef, Undef, Undef)))}}
    \cup {Signed(Hdr(a, Str("k1")), GoodPl, "m1") : a \in {Str("HS256"), Str("none"), Undef}}
    \cup {Token(3, Hdr(Str("none"), Undef), GoodPl, Sig(TRUE, 0, "nobody", SigningInput(GoodHdr, GoodPl)))}
    \cup {Token(n, GoodHdr, GoodPl, Sig(TRUE, 64, "m1", SigningInput(GoodHdr, GoodPl))) : n \in {0, 2, 4}}
    \cup {Signed(HdrGarbage, GoodPl, "m1"), Signed(GoodHdr, PlGarbage, "m1"),
          Signed(HdrNull, GoodPl, "m1")}
    \cup {Signed(GoodHdr, Pl(Num(S0 - 1), Undef, Undef, Str("OpenCampus"), Str("sandbox")),
                 "nobody")}
    \cup {Signed(HdrOther, PlOther, "m1"),
          Token(3, HdrOther, PlOther, Sig(TRUE, 64, "m1", SigningInput(GoodHdr, GoodPl)))}

OptionsSet ==
    {Options(Undef, Undef), Options(Str("OpenCampus"), Str("sandbox"))}

\* An access token: whether parseJwt can parse it, and the exp it carries.
Access(name, parses, exp) == [name |-> name, parses |-> parses, exp |-> exp]

NoAccess == Access("none", FALSE, Undef)

AccessTokens ==
    {Access("at1", TRUE, LateExp), Access("at2", TRUE, Undef), Access("at3", FALSE, Undef)}

\* The id tokens the token endpoint hands out.
IdTokens ==
    {Signed(GoodHdr, GoodPl, "m1"),
     Signed(GoodHdr, GoodPl, "nobody"),
     Signed(Hdr(ES256, Undef), GoodPl, "m1"),
     Signed(GoodHdr, Pl(Num(S0 - 1), Undef, Undef, Str("OpenCampus"), Str("sandbox")), "m1"),
     Signed(GoodHdr, Pl(HugeExp, Undef, Undef, Str("OpenCampus"), Str("sandbox")), "m1"),
     Signed(GoodHdr, Pl(LateExp, Undef, Undef, Str("Evil"), Str("sandbox")), "m1"),
     Signed(GoodHdr, Pl(LateExp, Undef, Undef, Str("OpenCampus"), Str("other")), "m1")}

\* What the POST to the token endpoint ends in: the request or the parsing
\* of the body rejects, or the body has an error member (with its subType)
\* and may have an access_token and an id_token.
TokenResponse(rejects, error, hasAccess, hasId, access, id) ==
    [rejects |-> rejects, error |-> error, hasAccess |-> hasAccess, hasId |-> hasId,
     access_token |-> access, id_token |-> id]

TokenResponses ==
    {TokenResponse(FALSE, "none", TRUE, TRUE, a, i) : a \in AccessTokens, i \in IdTokens}
    \cup {TokenResponse(FALSE, e, TRUE, TRUE, Access("at1", TRUE, LateExp),
                         Signed(GoodHdr, GoodPl, "m1")) :
            e \in {"SANDBOX_WALLET_ERROR", "OTHER"}}
    \cup {TokenResponse(r, e, FALSE, FALSE, NoAccess, Token(0, HdrGarbage, PlGarbage,
                                                           Sig(FALSE, 0, "nobody", <<>>))) :
            r \in BOOLEAN, e \in {"none", "SANDBOX_WALLET_ERROR", "OTHER"}}
    \cup {TokenResponse(FALSE, "none", TRUE, FALSE, Access("at1", TRUE, LateExp),
                         Token(0, HdrGarbage, PlGarbage, Sig(FALSE, 0, "nobody", <<>>))),
          TokenResponse(FALSE, "none", FALSE, TRUE, NoAccess, Signed(GoodHdr, GoodPl, "m1"))}

\* The clientId of the SDK instance (the default of OCAuthSandbox).
ClientId == "sandbox"

\* ---------------------------------------------------------------- state
VARIABLES
    now,     \* Date.now(), in milliseconds
    build,   \* the revision of jwtVerifier.js in use
    cache,   \* jwksCache.cache: url -> {jwks, timestamp}
    vc,      \* the verifyToken / verifyJWT call in progress
    last,    \* the call before it, when the caller repeats a call
    cv,      \* a validateClaims call on its own
    dc,      \* a decodeJWT call on its own
    sv,      \* a verifySignature call on its own
    fj,      \* the fetchJWKS calls the application makes itself
    xc,      \* the exchangeTokenFromCode call in progress
    storage, \* the token storage ('oc-token-storage')
    ev,      \* a call of webcrypto.subtle.verify or of the jwt-decode verifyToken
    tx,      \* the transaction storage (the PKCE meta)
    oc,      \* the OCAuthCore instance: its flag, its auth state and its calls
    cb       \* the LoginCallBack component and the context it reads

vars == <<now, build, cache, vc, last, cv, dc, sv, fj, xc, storage, ev, tx, oc, cb>>

\* The state of the session layer above the token exchange.
session == <<ev, tx, oc, cb>>

\* The state of the session controller.
login == <<xc, storage>>

\* A call of verifyToken (and of verifyJWT inside it): its arguments, where it
\* stands, what it did so far and what it returned; while its key set request
\* is under way, when it was sent and whether it carries an abort signal;
\* evicted: its cache lookup deleted a stale entry.
IdleCall ==
    [pc |-> "idle", caller |-> "none",
     token |-> Token(0, HdrGarbage, PlGarbage, Sig(FALSE, 0, "nobody", <<>>)),
     url |-> JWKS_SANDBOX_URL, options |-> Options(Undef, Undef),
     cacheReads |-> 0, evicted |-> FALSE,
     netRequests |-> 0, sentAt |-> 0, signal |-> FALSE, response |-> "none",
     gotKeys |-> FALSE, jwks |-> <<>>,
     keyBy |-> "none", jwk |-> NoKey, coordsThrow |-> FALSE,
     sigRan |-> FALSE, message |-> SigningInput(HdrGarbage, PlGarbage),
     sigMat |-> "none", sigOk |-> FALSE, hashOk |-> FALSE,
     claimsRan |-> FALSE, claimsAt |-> 0, claimsErrors |-> <<>>,
     result |-> NoOutcome, verified |-> "none"]

\* A validateClaims call: its arguments and what it returned.
IdleClaims ==
    [pc |-> "idle", payload |-> PlGarbage, options |-> Options(Undef, Undef),
     at |-> 0, res |-> [threw |-> FALSE, valid |-> FALSE, errors |-> <<>>]]

\* A decodeJWT call: its argument and what it returned or threw.
IdleDecode ==
    [pc |-> "idle", token |-> Token(0, HdrGarbage, PlGarbage, Sig(FALSE, 0, "nobody", <<>>)),
     res |-> decodeJWT(Token(0, HdrGarbage, PlGarbage, Sig(FALSE, 0, "nobody", <<>>)))]

\* A verifySignature call: its arguments, whether hashing resolved and the
\* curve library threw, and what it returned.
IdleSignature ==
    [pc |-> "idle", message |-> SigningInput(HdrGarbage, PlGarbage),
     signature |-> Sig(FALSE, 0, "nobody", <<>>), mat |-> "none",
     hashOk |-> FALSE, curveThrows |-> FALSE, res |-> "none"]

\* The fetchJWKS calls the application has under way at once.
Slots == {"first", "second"}

\* A fetchJWKS call: its argument, where it stands, what its cache lookup
\* gave (hit), whether it sent a request, with an abort signal or not, when the
\* timer of the signal was started (sentAt), whether another call's request for
\* the same URL was under way then (overlap), the key set the request was
\* answered with, and what the call returned (jwks) or that it threw.
IdleFetch ==
    [pc |-> "idle", url |-> JWKS_SANDBOX_URL, hit |-> FALSE,
     netRequests |-> 0, sentAt |-> 0, signal |-> FALSE, overlap |-> FALSE,
     response |-> [kind |-> "none", keys |-> <<>>],
     threw |-> FALSE, jwks |-> <<>>]

\* No fetchJWKS call under way; cleared: the URLs for which fetchJWKS was not
\* called since the last clearJWKSCache().
NoFetches ==
    [calls |-> [i \in Slots |-> IdleFetch], cleared |-> [u \in Urls |-> FALSE]]

\* The token storage: the stored object (present) or nothing.
NoStorage ==
    [present |-> FALSE, access_token |-> NoAccess, id_token |-> IdleCall.token,
     expired |-> Undef, state |-> Undef]

\* An exchangeTokenFromCode call: its state argument, the response it got,
\* what verifyToken returned for the id_token and how the call ended
\* (resolved, or rejected with an AuthError).
IdleExchange ==
    [pc |-> "idle", state |-> Undef,
     resp |-> TokenResponse(FALSE, "none", FALSE, FALSE, NoAccess, IdleCall.token),
     verified |-> "none", outcome |-> "none"]

\* No call before this one.
NoLast == [called |-> FALSE, call |-> IdleCall]

\* A call of webcrypto.subtle.verify(algorithm, key, signature, data) or of
\* the verifyToken(idToken, publicKeyBase64) that decodes with jwt-decode: the
\* operation, its arguments (mat names the key pair of the key argument),
\* the second at which it ran and what it returned.
IdleExport ==
    [pc |-> "idle", op |-> "none", token |-> IdleCall.token,
     signature |-> Sig(FALSE, 0, "nobody", <<>>),
     message |-> SigningInput(HdrGarbage, PlGarbage), mat |-> "none",
     at |-> 0, res |-> "none"]

\* The transaction storage: the PKCE meta signInWithRedirect saved, or nothing.
NoTransaction == [present |-> FALSE, codeVerifier |-> FALSE]

\* The auth state AuthInfoManager holds after clear(): not authenticated, no
\* tokens (NoAccess and the token of IdleCall stand for undefined).
NoAuthState ==
    [isAuthenticated |-> FALSE, accessToken |-> NoAccess, idToken |-> IdleCall.token]

\* A callback URL: whether one was passed at all, whether new URL() parses it,
\* and its code and state parameters (Undef for a parameter it has not).
Url(given, parses, code, state) ==
    [given |-> given, parses |-> parses, code |-> code, state |-> state]

NoUrl == Url(FALSE, FALSE, Undef, Undef)

\* An initialize() call: where it stands, whether it ran syncAuthInfo, and
\* the access token its syncAuthInfo read.
IdleInitialize == [pc |-> "idle", ran |-> FALSE, access |-> NoAccess]

\* A handleLoginRedirect(url) call: its caller and argument, where it stands,
\* the access token its syncAuthInfo read, whether it called
\* exchangeTokenFromCode (contacted), the object that call stored, how it
\* ended ("{}", "authState", or the Error it threw) and the auth state it
\* returned.
IdleHandle ==
    [pc |-> "idle", by |-> "none", url |-> NoUrl, access |-> NoAccess,
     contacted |-> FALSE, stored |-> NoStorage,
     outcome |-> "none", returned |-> NoAuthState]

\* A logout(logoutReturnTo, skipBrowserLogout) call: where it stands, its
\* second argument, what the browser step ended in and how the call ended.
IdleLogout == [pc |-> "idle", skip |-> FALSE, browser |-> "none", outcome |-> "none"]

\* A signInWithRedirect(params) call: where it stands, what the browser
\* ended in and how the call ended.
IdleSignIn == [pc |-> "idle", browser |-> "none", outcome |-> "none"]

\* An isAuthenticated() call: where it stands, the stored object its
\* getExpiredAt() read, the instant at which it read the clock and its answer.
NoAnswer == [pc |-> "idle", read |-> NoStorage, at |-> 0, res |-> FALSE]

\* The state of a new OCAuthCore instance: initialized is false, the logout
\* endpoint is the URL OCAuthSandbox passes to the constructor ("invalid" and
\* "none" stand for a string new URL() rejects and for none), the auth state
\* is that of a
\* new AuthInfoManager, no call is under way; syncRuns counts the
\* syncAuthInfo runs that initialize() started.
NewCore ==
    [initialized |-> FALSE, logoutEndPoint |-> "url",
     authState |-> NoAuthState, syncRuns |-> 0,
     ini |-> [i \in Slots |-> IdleInitialize],
     hl |-> IdleHandle, lo |-> IdleLogout, si |-> IdleSignIn, ia |-> NoAnswer]

\* The LoginCallBack component and what it reads from the context of
\* OCConnect. revision: the component of the SDK, with its module-level flag
\* handledRedirect, or the one of the integration guide, with a ref; mounted:
\* it is shown; url, hasSuccess, hasError: its props url, successCallback,
\* errorCallback; ocAuth, isInitialized: the context has the instance, has
\* isInitialized true; effectDue: a dependency of its effect changed since
\* the effect ran; handledRedirect: the flag or the ref; invoked: the calls
\* of ocAuth.handleLoginRedirect(url) since it was shown; call: how the last
\* of them stands; succeeded, authError: successCallback was called,
\* setAuthError(e) was called.
NoCallBack ==
    [revision |-> "sdk", mounted |-> FALSE, url |-> "", hasSuccess |-> FALSE,
     hasError |-> FALSE, ocAuth |-> FALSE, isInitialized |-> FALSE,
     effectDue |-> FALSE, handledRedirect |-> FALSE, invoked |-> 0,
     call |-> "none", succeeded |-> FALSE, authError |-> FALSE]

\* Nothing of the session layer has run.
SessionIdle ==
    /\ ev = IdleExport
    /\ tx = NoTransaction
    /\ oc = NewCore
    /\ cb = NoCallBack

\* The call ends: verifyJWT returns result and verifyToken its boolean.
Finish(c, result) ==
    [c EXCEPT !.pc = "done", !.sentAt = 0, !.signal = FALSE,
              !.result = result, !.verified = verifyToken(result)]

\* An algorithm check that lets every algorithm pass.
AlgorithmAccepted_Any(header) == TRUE

\* The header passes the algorithm check of verifyJWT.
AlgorithmAccepted(header) == header.alg = ES256

\* verifyJWT up to the await of fetchJWKS: decode, log, algorithm check and
\* the cache lookup of fetchJWKS, which ends the call, finds the key set in
\* the cache or sends the request, with the signal of AbortSignal.timeout(10000)
\* where the platform has AbortSignal.timeout (abortTimeout) and with no signal
\* where it has not. Gives the call and the cache.
VerifyBegin(token, url, options, caller, b, c, nowMs, abortTimeout) ==
    LET call == [IdleCall EXCEPT !.caller = caller, !.token = token, !.url = url,
                                 !.options = options]
        d == decodeJWT(token)
    IN  IF ~d.ok
        THEN [call |-> Finish(call, Catch(d.err)), cache |-> c]
        ELSE IF LogThrows(b, d.payload)
        THEN [call |-> Finish(call, Catch(Err("Invalid time value", <<>>))), cache |-> c]
        ELSE IF d.header.val = "null"
        THEN [call |-> Finish(call, Catch(Err("Cannot read properties of null", <<>>))),
              cache |-> c]
        ELSE IF ~AlgorithmAccepted(d.header)
        THEN [call |-> Finish(call, Catch(Err("Unsupported algorithm", <<d.header.alg.s>>))),
              cache |-> c]
        ELSE IF JWKSCacheHit(c, url, nowMs)
        THEN [call |-> [call EXCEPT !.pc = "keys", !.cacheReads = 1, !.gotKeys = TRUE,
                                    !.jwks = c[url].jwks],
              cache |-> JWKSCacheAfterGet(c, url, nowMs)]
        ELSE [call |-> [call EXCEPT !.pc = "fetching", !.cacheReads = 1,
                                    !.evicted = c[url].present,
                                    !.netRequests = 1,
                                    !.sentAt = nowMs, !.signal = abortTimeout],
              cache |-> JWKSCacheAfterGet(c, url, nowMs)]

\* A fetchJWKS that does not look at response.ok and reads the body of an
\* error response as a key set.
VerifyFetched_NoStatusCheck(call, resp, c, nowMs) ==
    IF resp.kind \in {"ok", "http-error"}
    THEN [call |-> [call EXCEPT !.pc = "keys", !.sentAt = 0, !.signal = FALSE,
                                !.response = resp.kind,
                                !.gotKeys = TRUE, !.jwks = resp.keys],
          cache |-> JWKSCacheSet(c, call.url, resp.keys, nowMs)]
    ELSE [call |-> Finish([call EXCEPT !.response = resp.kind], Catch(FetchError(resp))),
          cache |-> c]

\* A fetchJWKS that sends its request once more after a failure.
VerifyFetched_Retry(call, resp, c, nowMs) ==
    IF resp.kind = "ok"
    THEN [call |-> [call EXCEPT !.pc = "keys", !.sentAt = 0, !.signal = FALSE,
                                !.response = resp.kind,
                                !.gotKeys = TRUE, !.jwks = resp.keys],
          cache |-> JWKSCacheSet(c, call.url, resp.keys, nowMs)]
    ELSE IF call.netRequests < 2
    THEN [call |-> [call EXCEPT !.netRequests = @ + 1, !.sentAt = nowMs],
          cache |-> c]
    ELSE [call |-> Finish([call EXCEPT !.response = resp.kind], Catch(FetchError(resp))),
          cache |-> c]

\* fetchJWKS after its request ended in resp: the key set is stored and
\* returned, or the Error is thrown into the catch block of verifyJWT.
VerifyFetched(call, resp, c, nowMs) ==
    IF resp.kind = "ok"
    THEN [call |-> [call EXCEPT !.pc = "keys", !.sentAt = 0, !.signal = FALSE,
                                !.response = resp.kind,
                                !.gotKeys = TRUE, !.jwks = resp.keys],
          cache |-> JWKSCacheSet(c, call.url, resp.keys, nowMs)]
    ELSE [call |-> Finish([call EXCEPT !.response = resp.kind], Catch(FetchError(resp))),
          cache |-> c]

\* Key resolution that falls back to the first key for an unknown kid.
ResolveKey_Fallback(header, keys) ==
    IF Truthy(header.kid) /\ findKeyInJWKS(keys, header.kid) # NoKey
    THEN [ok |-> TRUE, by |-> "kid", jwk |-> findKeyInJWKS(keys, header.kid), err |-> NoErr]
    ELSE IF Len(keys) > 0
         THEN [ok |-> TRUE, by |-> "first", jwk |-> keys[1], err |-> NoErr]
         ELSE [ok |-> FALSE, by |-> "first", jwk |-> NoKey,
               err |-> Err("No kid in JWT header and no keys in JWKS", <<>>)]

\* Step 4 of verifyJWT: the key of the header's kid, or the first key when the
\* header has no (truthy) kid.
ResolveKey(header, keys) ==
    IF Truthy(header.kid)
    THEN LET jwk == findKeyInJWKS(keys, header.kid)
         IN  IF jwk = NoKey
             THEN [ok |-> FALSE, by |-> "kid", jwk |-> NoKey,
                   err |-> Err("Key with kid not found in JWKS", <<header.kid.s>>)]
             ELSE [ok |-> TRUE, by |-> "kid", jwk |-> jwk, err |-> NoErr]
    ELSE IF Len(keys) > 0
         THEN [ok |-> TRUE, by |-> "first", jwk |-> keys[1], err |-> NoErr]
         ELSE [ok |-> FALSE, by |-> "first", jwk |-> NoKey,
               err |-> Err("No kid in JWT header and no keys in JWKS", <<>>)]

\* verifyJWT from the key set on: key resolution, key conversion, signature
\* and claims. Under a key made of unusable coordinates the curve library
\* throws or finds that nothing verifies: verifySignature returns false.
VerifyRest(call, b, nowMs, coordsThrow, hashOk) ==
    LET d == decodeJWT(call.token)
        r == ResolveKey(d.header, call.jwks)
        k == jwkToEllipticKey(r.jwk, coordsThrow)
        sigOk == verifySignature(d.message, d.signature, k, hashOk, k.mat = "missing")
        v == validateClaims(d.payload, call.options, NowSeconds(nowMs), b)
        c1 == [call EXCEPT !.keyBy = r.by, !.jwk = r.jwk,
                           !.coordsThrow = (r.jwk.mat = "missing" /\ coordsThrow)]
        c2 == [c1 EXCEPT !.sigRan = TRUE, !.message = d.message, !.sigMat = k.mat,
                         !.sigOk = sigOk, !.hashOk = hashOk]
        c3 == [c2 EXCEPT !.claimsRan = TRUE, !.claimsAt = NowSeconds(nowMs),
                         !.claimsErrors = v.errors]
    IN  IF ~r.ok THEN Finish(c1, Catch(r.err))
        ELSE IF ~k.ok THEN Finish(c1, Catch(k.err))
        ELSE IF ~sigOk THEN Finish(c2, Catch(SignatureError(b)))
        ELSE IF v.threw THEN Finish(c3, Catch(Err("Cannot read properties of null", <<>>)))
        ELSE IF ~v.valid THEN Finish(c3, Catch(Err("JWT claims validation failed", v.errors)))
        ELSE Finish(c3, ValidOutcome(d.header, d.payload))

\* ---------------------------------------------------------------- actions
Init ==
    /\ now = T0
    /\ build \in Builds
    /\ cache = EmptyCache
    /\ vc = IdleCall
    /\ last = NoLast
    /\ cv = IdleClaims
    /\ dc = IdleDecode
    /\ sv = IdleSignature
    /\ fj = NoFetches
    /\ xc = IdleExchange
    /\ storage = NoStorage
    /\ SessionIdle

\* The application calls verifyToken(token, url, options).
VerifyStart ==
    /\ vc.pc = "idle"
    /\ \E token \in Tokens, options \in OptionsSet, abortTimeout \in BOOLEAN :
        LET r == VerifyBegin(token, JWKS_SANDBOX_URL, options, "app", build, cache, now,
                             abortTimeout)
        IN  /\ vc' = r.call
            /\ cache' = r.cache
    /\ UNCHANGED <<now, build, last, cv, dc, sv, fj, login, session>>

\* The key set request of the call ends.
FetchRespond ==
    /\ vc.pc = "fetching"
    /\ \E resp \in Responses :
        LET r == VerifyFetched(vc, resp, cache, now)
        IN  /\ vc' = r.call
            /\ cache' = r.cache
    /\ UNCHANGED <<now, build, last, cv, dc, sv, fj, login, session>>

\* The timer of the abort signal fires, no earlier than 10 s after the
\* request was sent: the request is aborted.
FetchTimeout ==
    /\ vc.pc = "fetching"
    /\ vc.signal
    /\ now >= vc.sentAt + FETCH_TIMEOUT
    /\ LET r == VerifyFetched(vc, TimeoutResponse, cache, now)
       IN  /\ vc' = r.call
           /\ cache' = r.cache
    /\ UNCHANGED <<now, build, last, cv, dc, sv, fj, login, session>>

\* The call goes on with the key set it got.
VerifyFinish ==
    /\ vc.pc = "keys"
    /\ \E coordsThrow \in BOOLEAN, hashOk \in BOOLEAN :
        vc' = VerifyRest(vc, build, now, coordsThrow, hashOk)
    /\ UNCHANGED <<now, build, last, cache, cv, dc, sv, fj, login, session>>

\* The application takes the result.
VerifyReturn ==
    /\ vc.pc = "done"
    /\ vc.caller = "app"
    /\ vc' = IdleCall
    /\ UNCHANGED <<now, build, last, cache, cv, dc, sv, fj, login, session>>

\* clearJWKSCache()
ClearCache ==
    /\ cache # EmptyCache
    /\ cache' = EmptyCache
    /\ UNCHANGED <<now, build, last, vc, cv, dc, sv, fj, login, session>>

\* Time passes.
Tick ==
    /\ \E t \in Instants : t > now /\ now' = t
    /\ UNCHANGED <<build, last, cache, vc, cv, dc, sv, fj, login, session>>

Next ==
    \/ VerifyStart
    \/ FetchRespond
    \/ FetchTimeout
    \/ VerifyFinish
    \/ VerifyReturn
    \/ ClearCache
    \/ Tick

Spec == Init /\ [][Next]_vars

\* What the runtime guarantees: the clock advances, a timer that is due fires,
\* and a call whose await has resolved goes on. That the network answers a
\* request is not guaranteed.
SpecLive ==
    /\ Init
    /\ [][Next]_vars
    /\ WF_vars(Tick)
    /\ WF_vars(FetchTimeout)
    /\ WF_vars(VerifyFinish)

\* ---------------------------------------------------------------- calling twice
\* The application takes the result and calls verifyJWT again with the same
\* token, url and options.
VerifyAgain ==
    /\ vc.pc = "done"
    /\ vc.caller = "app"
    /\ ~last.called
    /\ last' = [called |-> TRUE, call |-> vc]
    /\ \E abortTimeout \in BOOLEAN :
        LET r == VerifyBegin(vc.token, vc.url, vc.options, "app", build, cache, now,
                             abortTimeout)
        IN  /\ vc' = r.call
            /\ cache' = r.cache
    /\ UNCHANGED <<now, build, cv, dc, sv, fj, login, session>>

\* The application takes the result of the second call.
VerifyReturnBoth ==
    /\ vc.pc = "done"
    /\ last.called
    /\ vc' = IdleCall
    /\ last' = NoLast
    /\ UNCHANGED <<now, build, cache, cv, dc, sv, fj, login, session>>

NextTwice ==
    \/ VerifyStart
    \/ FetchRespond
    \/ FetchTimeout
    \/ VerifyFinish
    \/ VerifyAgain
    \/ VerifyReturnBoth
    \/ Tick

SpecTwice == Init /\ [][NextTwice]_vars

\* ---------------------------------------------------------------- fetchJWKS alone
\* What the request of a fetchJWKS(url) call ends in.
FetchResponses(url) ==
    {Response("ok", ks) : ks \in Served(url)}
        \cup {Response(k, <<>>) :
                k \in {"http-error", "bad-json", "bad-format", "network-error"}}

\* fetchJWKS(url) up to its await of fetch: the cache lookup returns the key
\* set, or the request is sent; others: the calls under way beside it.
FetchBegin(url, c, nowMs, abortTimeout, others) ==
    LET call == [IdleFetch EXCEPT !.url = url]
    IN  IF JWKSCacheHit(c, url, nowMs)
        THEN [call |-> [call EXCEPT !.pc = "done", !.hit = TRUE, !.jwks = c[url].jwks],
              cache |-> JWKSCacheAfterGet(c, url, nowMs)]
        ELSE [call |-> [call EXCEPT !.pc = "fetching", !.netRequests = 1,
                                    !.sentAt = IF abortTimeout THEN nowMs ELSE 0,
                                    !.signal = abortTimeout,
                                    !.overlap = \E o \in others :
                                                    o.pc = "fetching" /\ o.url = url],
              cache |-> JWKSCacheAfterGet(c, url, nowMs)]

\* A fetchJWKS that caches its failures: a request that fails stores an empty
\* key set for the URL.
FetchEnd_CacheFailure(call, resp, c, nowMs) ==
    IF resp.kind = "ok"
    THEN [call |-> [call EXCEPT !.pc = "done", !.sentAt = 0, !.signal = FALSE,
                                !.response = resp, !.jwks = resp.keys],
          cache |-> JWKSCacheSet(c, call.url, resp.keys, nowMs)]
    ELSE [call |-> [call EXCEPT !.pc = "done", !.sentAt = 0, !.signal = FALSE,
                                !.threw = TRUE],
          cache |-> JWKSCacheSet(c, call.url, <<>>, nowMs)]

\* fetchJWKS after its request ended in resp: the key set is stored and
\* returned, or the Error is thrown.
FetchEnd(call, resp, c, nowMs) ==
    IF resp.kind = "ok"
    THEN [call |-> [call EXCEPT !.pc = "done", !.sentAt = 0, !.signal = FALSE,
                                !.response = resp, !.jwks = resp.keys],
          cache |-> JWKSCacheSet(c, call.url, resp.keys, nowMs)]
    ELSE [call |-> [call EXCEPT !.pc = "done", !.sentAt = 0, !.signal = FALSE,
                                !.threw = TRUE],
          cache |-> c]

\* The other calls.
Others(i) == {fj.calls[j] : j \in Slots \ {i}}

\* The application calls fetchJWKS(url).
FetchJWKSStart(i) ==
    /\ fj.calls[i].pc = "idle"
    /\ \E url \in Urls, abortTimeout \in BOOLEAN :
        LET r == FetchBegin(url, cache, now, abortTimeout, Others(i))
        IN  /\ fj' = [fj EXCEPT !.calls[i] = r.call, !.cleared[url] = FALSE]
            /\ cache' = r.cache
    /\ UNCHANGED <<now, build, last, vc, cv, dc, sv, login, session>>

\* The request of the call ends.
FetchJWKSRespond(i) ==
    /\ fj.calls[i].pc = "fetching"
    /\ \E resp \in FetchResponses(fj.calls[i].url) :
        LET r == FetchEnd(fj.calls[i], resp, cache, now)
        IN  /\ fj' = [fj EXCEPT !.calls[i] = r.call]
            /\ cache' = r.cache
    /\ UNCHANGED <<now, build, last, vc, cv, dc, sv, login, session>>

\* The timer of the call's abort signal fires.
FetchJWKSTimeout(i) ==
    /\ fj.calls[i].pc = "fetching"
    /\ fj.calls[i].signal
    /\ now >= fj.calls[i].sentAt + FETCH_TIMEOUT
    /\ LET r == FetchEnd(fj.calls[i], TimeoutResponse, cache, now)
       IN  /\ fj' = [fj EXCEPT !.calls[i] = r.call]
           /\ cache' = r.cache
    /\ UNCHANGED <<now, build, last, vc, cv, dc, sv, login, session>>

\* The application takes the key set or the Error.
FetchJWKSReturn(i) ==
    /\ fj.calls[i].pc = "done"
    /\ fj' = [fj EXCEPT !.calls[i] = IdleFetch]
    /\ UNCHANGED <<now, build, last, cache, vc, cv, dc, sv, login, session>>

\* The application calls clearJWKSCache() between its fetchJWKS calls.
FetchJWKSClear ==
    /\ cache' = EmptyCache
    /\ fj' = [fj EXCEPT !.cleared = [u \in Urls |-> TRUE]]
    /\ fj' # fj \/ cache' # cache
    /\ UNCHANGED <<now, build, last, vc, cv, dc, sv, login, session>>

NextCache ==
    \/ \E i \in Slots : FetchJWKSStart(i)
    \/ \E i \in Slots : FetchJWKSRespond(i)
    \/ \E i \in Slots : FetchJWKSTimeout(i)
    \/ \E i \in Slots : FetchJWKSReturn(i)
    \/ FetchJWKSClear
    \/ Tick

\* jwks.js exists in one revision only.
InitCache == Init /\ build = "jwtVerifier"

SpecCache == InitCache /\ [][NextCache]_vars

\* ---------------------------------------------------------------- TokenManager
\* exchangeTokenFromCode ends by throwing AuthError('Token acquisition failed').
Rejected(x) == [x EXCEPT !.pc = "done", !.outcome = "AuthError"]

\* The response lets exchangeTokenFromCode go on to the verification.
HasTokens(resp) ==
    /\ ~resp.rejects
    /\ resp.error # "SANDBOX_WALLET_ERROR"
    /\ resp.hasAccess
    /\ resp.hasId

\* A check of tokenVerified that lets everything pass.
TokenAccepted_Always(verified) == TRUE

\* if ( !tokenVerified ) throw
TokenAccepted(verified) == verified = "true"

\* The object exchangeTokenFromCode stores.
StorageData(resp, state) ==
    [present |-> TRUE, access_token |-> resp.access_token, id_token |-> resp.id_token,
     expired |-> resp.access_token.exp,
     state |-> IF Truthy(state) THEN state ELSE Undef]

\* Options that leave the audience out.
LoginOptions_NoAudience(clientId) == Options(Str("OpenCampus"), Undef)

\* The options exchangeTokenFromCode passes to verifyToken:
\* { expectedIssuer: 'OpenCampus', expectedAudience: this.clientId }
LoginOptions(clientId) == Options(Str("OpenCampus"), Str(clientId))

\* exchangeTokenFromCode(accessCode, codeVerifier, state) sends its POST.
ExchangeStart ==
    /\ xc.pc = "idle"
    /\ vc.pc = "idle"
    /\ \E state \in {Undef, Str("s1")} :
        xc' = [IdleExchange EXCEPT !.pc = "posting", !.state = state]
    /\ UNCHANGED <<now, build, last, cache, vc, cv, dc, sv, fj, storage, session>>

\* The POST ends with one of resps: the call throws, or calls verifyToken on
\* the id_token.
ExchangeRespondWith(resps) ==
    /\ xc.pc = "posting"
    /\ \E resp \in resps, abortTimeout \in BOOLEAN :
        IF HasTokens(resp)
        THEN LET r == VerifyBegin(resp.id_token, JWKS_SANDBOX_URL, LoginOptions(ClientId),
                                  "exchange", build, cache, now, abortTimeout)
             IN  /\ xc' = [xc EXCEPT !.pc = "verifying", !.resp = resp]
                 /\ vc' = r.call
                 /\ cache' = r.cache
        ELSE /\ xc' = Rejected([xc EXCEPT !.resp = resp])
             /\ UNCHANGED <<vc, cache, session>>
    /\ UNCHANGED <<now, build, last, cv, dc, sv, fj, storage, session>>

\* The POST ends.
ExchangeRespond == ExchangeRespondWith(TokenResponses)

\* verifyToken returned: the call throws, or parses the access token and
\* starts to store.
ExchangeVerified ==
    /\ xc.pc = "verifying"
    /\ vc.pc = "done"
    /\ vc.caller = "exchange"
    /\ vc' = IdleCall
    /\ xc' = IF TokenAccepted(vc.verified) /\ xc.resp.access_token.parses
             THEN [xc EXCEPT !.pc = "storing", !.verified = vc.verified]
             ELSE Rejected([xc EXCEPT !.verified = vc.verified])
    /\ UNCHANGED <<now, build, last, cache, cv, dc, sv, fj, storage, session>>

\* setStorage ends: the object is stored, or the call throws.
ExchangeStored ==
    /\ xc.pc = "storing"
    /\ \E stored \in BOOLEAN :
        IF stored
        THEN /\ storage' = StorageData(xc.resp, xc.state)
             /\ xc' = [xc EXCEPT !.pc = "done", !.outcome = "resolved"]
        ELSE /\ storage' = storage
             /\ xc' = Rejected(xc)
    /\ UNCHANGED <<now, build, last, cache, vc, cv, dc, sv, fj, session>>

\* The caller takes the outcome.
ExchangeReturn ==
    /\ xc.pc = "done"
    /\ xc' = IdleExchange
    /\ UNCHANGED <<now, build, last, cache, vc, cv, dc, sv, fj, storage, session>>

\* TokenManager.clear()
StorageClear ==
    /\ storage.present
    /\ storage' = NoStorage
    /\ UNCHANGED <<now, build, last, cache, vc, cv, dc, sv, fj, xc, session>>

NextLogin ==
    \/ ExchangeStart
    \/ ExchangeRespond
    \/ FetchRespond
    \/ FetchTimeout
    \/ VerifyFinish
    \/ ExchangeVerified
    \/ ExchangeStored
    \/ ExchangeReturn
    \/ StorageClear
    \/ Tick

SpecLogin == Init /\ [][NextLogin]_vars

\* ---------------------------------------------------------------- validateClaims alone
\* Every combination of claims and options.
ClaimPayloads ==
    {Pl(e, n, i, s, a) :
        e \in {Undef, Str("soon"), Num(S0 - 1), Num(S0), Num(S0 + 1), HugeExp},
        n \in {Undef, Str("soon"), Num(S0), Num(S0 + 1)},
        i \in {Undef, Num(S0), Num(S0 + 1)},
        s \in {Undef, Str("OpenCampus"), Str("opencampus"), Str("Evil")},
        a \in {Undef, Str("sandbox"), Str("other"), Arr(<<"other", "sandbox">>)}}

ClaimOptions ==
    {Options(i, a) : i \in {Undef, Str(""), Str("OpenCampus")}, a \in {Undef, Str("sandbox")}}

InitClaims ==
    /\ now = T0
    /\ build \in Builds
    /\ cache = EmptyCache
    /\ vc = IdleCall
    /\ last = NoLast
    /\ dc = IdleDecode
    /\ sv = IdleSignature
    /\ fj = NoFetches
    /\ xc = IdleExchange
    /\ storage = NoStorage
    /\ cv \in {[IdleClaims EXCEPT !.pc = "ready", !.payload = p, !.options = o] :
                    p \in ClaimPayloads, o \in ClaimOptions}
    /\ SessionIdle

\* validateClaims(payload, options) runs.
ClaimsValidate ==
    /\ cv.pc = "ready"
    /\ cv' = [cv EXCEPT !.pc = "done", !.at = NowSeconds(now),
                        !.res = validateClaims(cv.payload, cv.options, NowSeconds(now), build)]
    /\ UNCHANGED <<now, build, last, cache, vc, dc, sv, fj, login, session>>

NextClaims ==
    \/ ClaimsValidate
    \/ Tick

SpecClaims == InitClaims /\ [][NextClaims]_vars

\* ---------------------------------------------------------------- decodeJWT alone
\* Strings of one to four segments (and an argument that is no string), each
\* of the first three segments well formed, another encoding, no JSON, the
\* JSON null or empty.
DecodeTokens ==
    {Token(n, h, p, sg) :
        n \in {0, 1, 2, 3, 4},
        h \in {GoodHdr, HdrOther, HdrGarbage, HdrNull, HdrEmpty},
        p \in {GoodPl, PlOther, PlGarbage, PlNull, PlEmpty},
        sg \in {Sig(TRUE, 64, "m1", SigningInput(GoodHdr, GoodPl)),
                Sig(FALSE, 0, "nobody", <<>>), SigEmpty}}

InitDecode ==
    /\ now = T0
    /\ build \in Builds
    /\ cache = EmptyCache
    /\ vc = IdleCall
    /\ last = NoLast
    /\ cv = IdleClaims
    /\ sv = IdleSignature
    /\ fj = NoFetches
    /\ xc = IdleExchange
    /\ storage = NoStorage
    /\ dc \in {[IdleDecode EXCEPT !.pc = "ready", !.token = t] : t \in DecodeTokens}
    /\ SessionIdle

\* decodeJWT(token) runs.
DecodeRun ==
    /\ dc.pc = "ready"
    /\ dc' = [dc EXCEPT !.pc = "done", !.res = decodeJWT(dc.token)]
    /\ UNCHANGED <<now, build, last, cache, vc, cv, sv, fj, login, session>>

NextDecode == DecodeRun

SpecDecode == InitDecode /\ [][NextDecode]_vars

\* ---------------------------------------------------------------- verifySignature alone
\* Signing inputs, signature segments and keys: signatures that do not decode,
\* of 0, 63, 64 and 65 bytes, made by either key pair or by nobody over either
\* signing input; keys of either pair and a key of unusable coordinates.
SigMessages ==
    {SigningInput(GoodHdr, GoodPl),
     SigningInput(GoodHdr, Pl(HugeExp, Undef, Undef, Undef, Undef))}

SigSegments ==
    {Sig(d, l, m, o) : d \in BOOLEAN, l \in {0, 63, 64, 65},
                       m \in {"m1", "m2", "nobody"}, o \in SigMessages}

SigKeys == {"m1", "m2", "missing"}

InitSig ==
    /\ now = T0
    /\ build \in Builds
    /\ cache = EmptyCache
    /\ vc = IdleCall
    /\ last = NoLast
    /\ cv = IdleClaims
    /\ dc = IdleDecode
    /\ fj = NoFetches
    /\ xc = IdleExchange
    /\ storage = NoStorage
    /\ sv \in {[IdleSignature EXCEPT !.pc = "ready", !.message = m, !.signature = sg,
                                     !.mat = k, !.hashOk = h, !.curveThrows = t] :
                    m \in SigMessages, sg \in SigSegments, k \in SigKeys,
                    h \in BOOLEAN, t \in BOOLEAN}
    /\ SessionIdle

\* verifySignature(message, signature, publicKey) runs.
SignatureVerify ==
    /\ sv.pc = "ready"
    /\ sv' = [sv EXCEPT !.pc = "done",
                        !.res = IF verifySignature(sv.message, sv.signature,
                                                   [ok |-> TRUE, err |-> NoErr, mat |-> sv.mat],
                                                   sv.hashOk, sv.curveThrows)
                                THEN "true" ELSE "false"]
    /\ UNCHANGED <<now, build, last, cache, vc, cv, dc, fj, login, session>>

NextSig == SignatureVerify

SpecSig == InitSig /\ [][NextSig]_vars

\* ---------------------------------------------------------------- exported verifiers
\* webcrypto.subtle.verify(algorithm, key, signature, data): it warns and
\* returns true.
subtleVerify(algorithm, key, signature, data) == TRUE

\* jwtDecode(idToken) of jwt-decode: the payload parsed from the second
\* segment; it throws for an argument that is no string or has no second
\* segment and for a second segment that is no JSON.
jwtDecode(idToken) ==
    IF idToken.n < 2 \/ idToken.pl.enc # "json"
    THEN [ok |-> FALSE, payload |-> PlGarbage]
    ELSE [ok |-> TRUE, payload |-> idToken.pl]

\* decoded.exp < now: false unless exp is a number below now (the strings of
\* the model are no numerals: they convert to NaN).
JsLess(v, n) == v.t = "number" /\ v.n < n

\* verifyToken(idToken, publicKeyBase64), the revision that decodes with
\* jwt-decode: false for a token that does not decode, for a truthy exp in
\* the past, a truthy iss other than 'OpenCampus' and a truthy aud other than
\* 'sandbox'; false from the catch block when decoded is null or when
\* new Date(decoded.exp * 1000).toISOString() of the log line throws; true
\* otherwise. The key and the signature segment are not looked at.
verifyTokenJwtDecode(idToken, publicKeyBase64, nowMs) ==
    LET d == jwtDecode(idToken)
        decoded == d.payload
    IN  IF ~d.ok THEN FALSE
        ELSE IF decoded.val = "null" THEN FALSE
        ELSE IF Truthy(decoded.exp) /\ JsLess(decoded.exp, NowSeconds(nowMs)) THEN FALSE
        ELSE IF Truthy(decoded.iss) /\ decoded.iss # Str("OpenCampus") THEN FALSE
        ELSE IF Truthy(decoded.aud) /\ decoded.aud # Str("sandbox") THEN FALSE
        ELSE IF ~DateInRange(decoded.exp) THEN FALSE
        ELSE TRUE

\* The calls of the two operations: every signature segment, message and
\* key of the signature checks, and every token with either key.
ExportCalls ==
    {[IdleExport EXCEPT !.pc = "ready", !.op = "subtle.verify", !.signature = sg,
                        !.message = m, !.mat = k] :
        sg \in SigSegments, m \in SigMessages, k \in {"m1", "m2"}}
    \cup {[IdleExport EXCEPT !.pc = "ready", !.op = "verifyToken", !.token = t, !.mat = k] :
            t \in Tokens, k \in {"m1", "m2"}}

InitExports ==
    /\ now = T0
    /\ build \in Builds
    /\ cache = EmptyCache
    /\ vc = IdleCall
    /\ last = NoLast
    /\ cv = IdleClaims
    /\ dc = IdleDecode
    /\ sv = IdleSignature
    /\ fj = NoFetches
    /\ xc = IdleExchange
    /\ storage = NoStorage
    /\ tx = NoTransaction
    /\ oc = NewCore
    /\ cb = NoCallBack
    /\ ev \in ExportCalls

\* webcrypto.subtle.verify(algorithm, key, signature, data) runs.
SubtleVerify ==
    /\ ev.pc = "ready"
    /\ ev.op = "subtle.verify"
    /\ ev' = [ev EXCEPT !.pc = "done", !.at = NowSeconds(now),
                        !.res = IF subtleVerify("ECDSA", ev.mat, ev.signature, ev.message)
                                THEN "true" ELSE "false"]
    /\ UNCHANGED <<now, build, last, cache, vc, cv, dc, sv, fj, login, tx, oc, cb>>

\* verifyToken(idToken, publicKeyBase64) of the jwt-decode revision runs.
VerifyTokenJwtDecode ==
    /\ ev.pc = "ready"
    /\ ev.op = "verifyToken"
    /\ ev' = [ev EXCEPT !.pc = "done", !.at = NowSeconds(now),
                        !.res = IF verifyTokenJwtDecode(ev.token, ev.mat, now)
                                THEN "true" ELSE "false"]
    /\ UNCHANGED <<now, build, last, cache, vc, cv, dc, sv, fj, login, tx, oc, cb>>

NextExports ==
    \/ SubtleVerify
    \/ VerifyTokenJwtDecode
    \/ Tick

SpecExports == InitExports /\ [][NextExports]_vars

\* ---------------------------------------------------------------- LoginCallBack
\* The two LoginCallBack components of the repository.
Revisions == {"sdk", "guide"}

\* The callback urls the component is shown with: none yet, or one.
CallBackUrls == {"", "test://auth/callback?code=c1"}

InitCallBack ==
    /\ now = T0
    /\ build = "jwtVerifier"
    /\ cache = EmptyCache
    /\ vc = IdleCall
    /\ last = NoLast
    /\ cv = IdleClaims
    /\ dc = IdleDecode
    /\ sv = IdleSignature
    /\ fj = NoFetches
    /\ xc = IdleExchange
    /\ storage = NoStorage
    /\ ev = IdleExport
    /\ tx = NoTransaction
    /\ oc = NewCore
    /\ cb \in {[NoCallBack EXCEPT !.revision = r] : r \in Revisions}

\* The body of the effect: what it makes of the flag (or ref), and whether it
\* calls ocAuth.handleLoginRedirect(url).
\* SDK:   if (!handledRedirect) { handleLogin(); handledRedirect = true; }
\*        with handleLogin calling only if (ocAuth && url);
\* guide: if (isInitialized && ocAuth && url) handleLogin(), with handleLogin
\*        calling, and setting the ref, only if (ocAuth && url && !ref.current).
EffectInvokes(c) ==
    IF c.revision = "sdk"
    THEN ~c.handledRedirect /\ c.ocAuth /\ c.url # ""
    ELSE c.isInitialized /\ c.ocAuth /\ c.url # "" /\ ~c.handledRedirect

EffectFlag(c) ==
    IF c.revision = "sdk" THEN TRUE
    ELSE c.handledRedirect \/ (c.isInitialized /\ c.ocAuth /\ c.url # "")

\* The application shows the component: it mounts, with a fresh ref in the
\* guide's revision, and its effect is due.
CallBackShow ==
    /\ ~cb.mounted
    /\ \E url \in CallBackUrls, s \in BOOLEAN, e \in BOOLEAN :
        cb' = [cb EXCEPT !.mounted = TRUE, !.url = url, !.hasSuccess = s, !.hasError = e,
                         !.effectDue = TRUE, !.invoked = 0,
                         !.handledRedirect = IF cb.revision = "guide" THEN FALSE ELSE @]
    /\ UNCHANGED <<now, build, last, cache, vc, cv, dc, sv, fj, login, ev, tx, oc>>

\* The url prop arrives after the component was shown.
CallBackUrl ==
    /\ cb.mounted
    /\ cb.url = ""
    /\ \E url \in CallBackUrls \ {""} :
        cb' = [cb EXCEPT !.url = url, !.effectDue = TRUE]
    /\ UNCHANGED <<now, build, last, cache, vc, cv, dc, sv, fj, login, ev, tx, oc>>

\* The parent renders again with new successCallback or errorCallback
\* functions.
CallBackRender ==
    /\ cb.mounted
    /\ cb.hasSuccess \/ cb.hasError
    /\ ~cb.effectDue
    /\ cb' = [cb EXCEPT !.effectDue = TRUE]
    /\ UNCHANGED <<now, build, last, cache, vc, cv, dc, sv, fj, login, ev, tx, oc>>

\* initAuth of OCConnect: setOcAuth(authSdk) after initialize() returned.
ContextOcAuth ==
    /\ ~cb.ocAuth
    /\ cb' = [cb EXCEPT !.ocAuth = TRUE, !.effectDue = @ \/ cb.mounted]
    /\ UNCHANGED <<now, build, last, cache, vc, cv, dc, sv, fj, login, ev, tx, oc>>

\* initAuth of OCConnect: setIsInitialized(true); a dependency of the effect
\* in the guide's revision only.
ContextInitialized ==
    /\ cb.ocAuth
    /\ ~cb.isInitialized
    /\ cb' = [cb EXCEPT !.isInitialized = TRUE,
                        !.effectDue = @ \/ (cb.mounted /\ cb.revision = "guide")]
    /\ UNCHANGED <<now, build, last, cache, vc, cv, dc, sv, fj, login, ev, tx, oc>>

\* The effect runs.
CallBackEffect ==
    /\ cb.mounted
    /\ cb.effectDue
    /\ cb' = [cb EXCEPT !.effectDue = FALSE,
                        !.handledRedirect = EffectFlag(cb),
                        !.invoked = IF EffectInvokes(cb) THEN @ + 1 ELSE @,
                        !.call = IF EffectInvokes(cb) THEN "pending" ELSE @]
    /\ UNCHANGED <<now, build, last, cache, vc, cv, dc, sv, fj, login, ev, tx, oc>>

\* ocAuth.handleLoginRedirect(url) resolves (successCallback is called when
\* there is one) or rejects (setAuthError(e)).
CallBackSettled ==
    /\ cb.call = "pending"
    /\ \E ok \in BOOLEAN :
        cb' = [cb EXCEPT !.call = IF ok THEN "resolved" ELSE "rejected",
                         !.succeeded = @ \/ (ok /\ cb.hasSuccess),
                         !.authError = @ \/ ~ok]
    /\ UNCHANGED <<now, build, last, cache, vc, cv, dc, sv, fj, login, ev, tx, oc>>

\* The application takes the component away.
CallBackHide ==
    /\ cb.mounted
    /\ cb' = [cb EXCEPT !.mounted = FALSE, !.effectDue = FALSE]
    /\ UNCHANGED <<now, build, last, cache, vc, cv, dc, sv, fj, login, ev, tx, oc>>

NextCallBack ==
    \/ CallBackShow
    \/ CallBackUrl
    \/ CallBackRender
    \/ ContextOcAuth
    \/ ContextInitialized
    \/ CallBackEffect
    \/ CallBackSettled
    \/ CallBackHide

SpecCallBack == InitCallBack /\ [][NextCallBack]_vars

\* ---------------------------------------------------------------- OCAuthCore
\* Math.round(new Date().valueOf() / 1000)
NowRounded(ms) == (ms + 500) \div 1000

\* A hasExpired() for which the token is still good in the second of its exp.
hasExpired_Inclusive(st, nowMs) ==
    IF ~Truthy(st.expired) THEN TRUE
    ELSE NowRounded(nowMs) > st.expired.n

\* TokenManager.hasExpired() on the stored object st at Date.now() = nowMs:
\* true when there is no (truthy) expired, else cur >= expiredAt.
hasExpired(st, nowMs) ==
    IF ~Truthy(st.expired) THEN TRUE
    ELSE NowRounded(nowMs) >= st.expired.n

\* The auth state after authInfoManager.setAuthState(accessToken, idToken,
\* edu_username, eth_address, true).
AuthStateOf(accessToken, idToken) ==
    [isAuthenticated |-> TRUE, accessToken |-> accessToken, idToken |-> idToken]

\* The access tokens of the sessions: one that is good at every instant, one
\* that expires a second after the first instant, and one without exp.
SoonExp == Num(S0 + 1)

SessionAccessTokens ==
    {Access("at1", TRUE, LateExp), Access("at4", TRUE, SoonExp), Access("at2", TRUE, Undef)}

\* What an earlier run of the application has left in the token storage:
\* nothing, or what exchangeTokenFromCode stored.
StoredSessions ==
    {NoStorage}
    \cup {StorageData(TokenResponse(FALSE, "none", TRUE, TRUE, a,
                                    Signed(GoodHdr, GoodPl, "m1")), st) :
            a \in SessionAccessTokens, st \in {Undef, Str("s1")}}

\* One step of syncAuthInfo() in the call c, between two awaits, on the stored
\* object st and the auth state as: after hasExpired() it clears the auth
\* state or goes on to getParsedIdToken(), then getAccessToken(), then
\* getIdToken(), and sets the auth state.
syncAuthInfo(c, st, nowMs, as) ==
    CASE c.pc = "sync1" /\ hasExpired(st, nowMs) ->
            [call |-> [c EXCEPT !.pc = "synced"], authState |-> NoAuthState]
      [] c.pc = "sync1" /\ ~hasExpired(st, nowMs) ->
            [call |-> [c EXCEPT !.pc = "sync2"], authState |-> as]
      [] c.pc = "sync2" ->
            [call |-> [c EXCEPT !.pc = "sync3"], authState |-> as]
      [] c.pc = "sync3" ->
            [call |-> [c EXCEPT !.pc = "sync4", !.access = st.access_token],
             authState |-> as]
      [] c.pc = "sync4" ->
            [call |-> [c EXCEPT !.pc = "synced"],
             authState |-> AuthStateOf(c.access, st.id_token)]

SyncSteps == {"sync1", "sync2", "sync3", "sync4"}

\* ---------------------------------------------------------------- initialize
InitInitialize ==
    /\ now = T0
    /\ build = "jwtVerifier"
    /\ cache = EmptyCache
    /\ vc = IdleCall
    /\ last = NoLast
    /\ cv = IdleClaims
    /\ dc = IdleDecode
    /\ sv = IdleSignature
    /\ fj = NoFetches
    /\ xc = IdleExchange
    /\ storage \in StoredSessions
    /\ ev = IdleExport
    /\ tx = NoTransaction
    /\ oc = NewCore
    /\ cb = NoCallBack

\* initialize() is called: if (!this.initialized) it calls syncAuthInfo(),
\* which awaits hasExpired(); else it returns.
InitializeStart(i) ==
    /\ oc.ini[i].pc = "idle"
    /\ oc' = IF oc.initialized
             THEN [oc EXCEPT !.ini[i].pc = "done"]
             ELSE [oc EXCEPT !.ini[i].pc = "sync1", !.ini[i].ran = TRUE,
                             !.syncRuns = @ + 1]
    /\ UNCHANGED <<now, build, last, cache, vc, cv, dc, sv, fj, login, ev, tx, cb>>

\* syncAuthInfo of the call goes on after an await: after hasExpired() it
\* clears the auth state or awaits getParsedIdToken(), then getAccessToken(),
\* then getIdToken(), and sets the auth state; then initialize() sets
\* this.initialized = true and returns.
InitializeSync(i) ==
    /\ oc.ini[i].pc \in SyncSteps
    /\ LET r == syncAuthInfo(oc.ini[i], storage, now, oc.authState)
       IN  oc' = IF r.call.pc = "synced"
                 THEN [oc EXCEPT !.authState = r.authState, !.initialized = TRUE,
                                 !.ini[i] = [r.call EXCEPT !.pc = "done"]]
                 ELSE [oc EXCEPT !.authState = r.authState, !.ini[i] = r.call]
    /\ UNCHANGED <<now, build, last, cache, vc, cv, dc, sv, fj, login, ev, tx, cb>>

\* The caller takes the return of initialize().
InitializeReturn(i) ==
    /\ oc.ini[i].pc = "done"
    /\ oc' = [oc EXCEPT !.ini[i] = IdleInitialize]
    /\ UNCHANGED <<now, build, last, cache, vc, cv, dc, sv, fj, login, ev, tx, cb>>

NextInitialize ==
    \/ \E i \in Slots : InitializeStart(i)
    \/ \E i \in Slots : InitializeSync(i)
    \/ \E i \in Slots : InitializeReturn(i)
    \/ StorageClear
    \/ Tick

SpecInitialize == InitInitialize /\ [][NextInitialize]_vars

\* ---------------------------------------------------------------- isAuthenticated
\* The instants the clock visits around the second in which the session of
\* SoonExp expires: 10.0 s, 10.4 s, 10.6 s, 11.0 s, and a later one.
SessionInstants == {T0, T0 + 400, T0 + 600, T0 + 1000, T0 + CACHE_TTL}

InitAuthenticated == InitInitialize

\* isAuthenticated() is called: hasExpired() awaits getExpiredAt(), which
\* reads the stored object.
IsAuthenticatedStart ==
    /\ oc.ia.pc = "idle"
    /\ oc' = [oc EXCEPT !.ia = [NoAnswer EXCEPT !.pc = "read", !.read = storage]]
    /\ UNCHANGED <<now, build, last, cache, vc, cv, dc, sv, fj, login, ev, tx, cb>>

\* hasExpired() goes on after the await: it reads the clock and compares;
\* isAuthenticated() returns the negation.
IsAuthenticatedAnswer ==
    /\ oc.ia.pc = "read"
    /\ oc' = [oc EXCEPT !.ia.pc = "done", !.ia.at = now,
                        !.ia.res = ~hasExpired(oc.ia.read, now)]
    /\ UNCHANGED <<now, build, last, cache, vc, cv, dc, sv, fj, login, ev, tx, cb>>

\* The caller takes the answer.
IsAuthenticatedReturn ==
    /\ oc.ia.pc = "done"
    /\ oc' = [oc EXCEPT !.ia = NoAnswer]
    /\ UNCHANGED <<now, build, last, cache, vc, cv, dc, sv, fj, login, ev, tx, cb>>

\* Time passes.
SessionTick ==
    /\ \E t \in SessionInstants : t > now /\ now' = t
    /\ UNCHANGED <<build, last, cache, vc, cv, dc, sv, fj, login, session>>

NextAuthenticated ==
    \/ IsAuthenticatedStart
    \/ IsAuthenticatedAnswer
    \/ IsAuthenticatedReturn
    \/ StorageClear
    \/ SessionTick

SpecAuthenticated == InitAuthenticated /\ [][NextAuthenticated]_vars

\* ---------------------------------------------------------------- login and logout
\* The transaction storage after transactionManager.save(meta) with the meta
\* of createPkceMeta(signinParams): it carries the codeVerifier.
SavedMeta == [present |-> TRUE, codeVerifier |-> TRUE]

\* const { codeVerifier } = await transactionManager.getTransactionMeta():
\* the stored codeVerifier, or undefined when nothing is stored.
codeVerifierOf(t) == t.present /\ t.codeVerifier

\* The empty object parseUrlFromString returns.
NoParams == [code |-> Undef, state |-> Undef]

\* A parser that takes the parameters of whatever string it is given.
parseUrlFromString_Lenient(u) ==
    IF ~u.given THEN NoParams ELSE [code |-> u.code, state |-> u.state]

\* parseUrlFromString(urlString): {} for no string and when new URL throws,
\* else the code and state parameters the URL has.
parseUrlFromString(u) ==
    IF ~u.given THEN NoParams
    ELSE IF ~u.parses THEN NoParams
    ELSE [code |-> u.code, state |-> u.state]

\* The URLs handleLoginRedirect is called with: none, a string that is no
\* URL (new URL() throws on it, though it has the text of a code parameter),
\* a URL without code, with an empty code, with code and state.
RedirectUrls ==
    {NoUrl,
     Url(TRUE, FALSE, Str("c1"), Undef),
     Url(TRUE, TRUE, Undef, Str("s1")),
     Url(TRUE, TRUE, Str(""), Undef),
     Url(TRUE, TRUE, Str("c1"), Str("s1"))}

\* What openAuthSessionAsync ends in at login: a redirect, the user closing
\* the browser, or a rejection.
LoginBrowserResults ==
    {[type |-> "success", url |-> u] : u \in RedirectUrls}
    \cup {[type |-> t, url |-> NoUrl] : t \in {"cancel", "dismiss", "throws"}}

\* What openAuthSessionAsync ends in at logout.
LogoutBrowserResults == {"success", "cancel", "dismiss", "throws"}

\* What the token endpoint answers in the sessions: an accepted id token with
\* an access token that has an exp or has none, an id token nobody signed, or
\* a failing POST.
SessionResponses ==
    {TokenResponse(FALSE, "none", TRUE, TRUE, a, Signed(GoodHdr, GoodPl, "m1")) :
        a \in {Access("at1", TRUE, LateExp), Access("at2", TRUE, Undef)}}
    \cup {TokenResponse(FALSE, "none", TRUE, TRUE, Access("at1", TRUE, LateExp),
                         Signed(GoodHdr, GoodPl, "nobody")),
          TokenResponse(TRUE, "none", FALSE, FALSE, NoAccess,
                        Token(0, HdrGarbage, PlGarbage, Sig(FALSE, 0, "nobody", <<>>)))}

InitSession ==
    /\ now = T0
    /\ build = "jwtVerifier"
    /\ cache = EmptyCache
    /\ vc = IdleCall
    /\ last = NoLast
    /\ cv = IdleClaims
    /\ dc = IdleDecode
    /\ sv = IdleSignature
    /\ fj = NoFetches
    /\ xc = IdleExchange
    /\ storage = NoStorage
    /\ ev = IdleExport
    /\ tx = NoTransaction
    /\ oc = NewCore
    /\ cb = NoCallBack

\* handleLoginRedirect(url) is entered by the caller by: it parses the url and
\* awaits getTransactionMeta(), or returns {}.
HandleBegin(url, by) ==
    IF Truthy(parseUrlFromString(url).code)
    THEN [IdleHandle EXCEPT !.pc = "meta", !.by = by, !.url = url]
    ELSE [IdleHandle EXCEPT !.pc = "done", !.by = by, !.url = url, !.outcome = "{}"]

\* signInWithRedirect(params) is called: it prepares the parameters and the
\* PKCE meta and awaits transactionManager.save(meta).
SignInStart ==
    /\ oc.si.pc = "idle"
    /\ oc.hl.pc = "idle"
    /\ oc' = [oc EXCEPT !.si.pc = "saving"]
    /\ UNCHANGED <<now, build, last, cache, vc, cv, dc, sv, fj, login, ev, tx, cb>>

\* save(meta) ends: the meta is stored and the browser is opened, or the call
\* throws.
SignInSaved ==
    /\ oc.si.pc = "saving"
    /\ \E saved \in BOOLEAN :
        IF saved
        THEN /\ tx' = SavedMeta
             /\ oc' = [oc EXCEPT !.si.pc = "browser"]
        ELSE /\ tx' = tx
             /\ oc' = [oc EXCEPT !.si.pc = "done", !.si.outcome = "Error"]
    /\ UNCHANGED <<now, build, last, cache, vc, cv, dc, sv, fj, login, ev, cb>>

\* openAuthSessionAsync ends: on success with a url the call goes on in
\* handleLoginRedirect(result.url), else it throws.
SignInBrowser ==
    /\ oc.si.pc = "browser"
    /\ \E result \in LoginBrowserResults :
        oc' = CASE result.type = "success" /\ result.url.given ->
                     [oc EXCEPT !.si.pc = "handling", !.si.browser = result.type,
                                !.hl = HandleBegin(result.url, "signIn")]
                [] result.type = "throws" ->
                     [oc EXCEPT !.si.pc = "done", !.si.browser = result.type,
                                !.si.outcome = "Error"]
                [] OTHER ->
                     [oc EXCEPT !.si.pc = "done", !.si.browser = result.type,
                                !.si.outcome = "AuthError"]
    /\ UNCHANGED <<now, build, last, cache, vc, cv, dc, sv, fj, login, ev, tx, cb>>

\* handleLoginRedirect has ended: signInWithRedirect ends the same way.
SignInHandled ==
    /\ oc.si.pc = "handling"
    /\ oc.hl.pc = "done"
    /\ oc' = [oc EXCEPT !.si.pc = "done", !.si.outcome = oc.hl.outcome, !.hl = IdleHandle]
    /\ UNCHANGED <<now, build, last, cache, vc, cv, dc, sv, fj, login, ev, tx, cb>>

\* The caller takes the outcome of signInWithRedirect.
SignInReturn ==
    /\ oc.si.pc = "done"
    /\ oc' = [oc EXCEPT !.si = IdleSignIn]
    /\ UNCHANGED <<now, build, last, cache, vc, cv, dc, sv, fj, login, ev, tx, cb>>

\* The application calls handleLoginRedirect(url) itself (the callback
\* screen).
HandleStart ==
    /\ oc.hl.pc = "idle"
    /\ oc.si.pc = "idle"
    /\ \E url \in RedirectUrls : oc' = [oc EXCEPT !.hl = HandleBegin(url, "app")]
    /\ UNCHANGED <<now, build, last, cache, vc, cv, dc, sv, fj, login, ev, tx, cb>>

\* getTransactionMeta() ends: with a codeVerifier the call starts
\* exchangeTokenFromCode(code, codeVerifier, state), which sends its POST;
\* without one it throws AuthError.
HandleMeta ==
    /\ oc.hl.pc = "meta"
    /\ xc.pc = "idle"
    /\ vc.pc = "idle"
    /\ IF codeVerifierOf(tx)
       THEN /\ oc' = [oc EXCEPT !.hl.pc = "exchange", !.hl.contacted = TRUE]
            /\ xc' = [IdleExchange EXCEPT !.pc = "posting",
                                          !.state = parseUrlFromString(oc.hl.url).state]
       ELSE /\ oc' = [oc EXCEPT !.hl.pc = "done", !.hl.outcome = "AuthError"]
            /\ xc' = xc
    /\ UNCHANGED <<now, build, last, cache, vc, cv, dc, sv, fj, storage, ev, tx, cb>>

\* A handleLoginRedirect that clears the transaction whatever the exchange
\* ended in.
HandleExchanged_ClearAlways ==
    /\ oc.hl.pc = "exchange"
    /\ xc.pc = "done"
    /\ xc' = IdleExchange
    /\ oc' = [oc EXCEPT !.hl.pc = "clearTx",
                        !.hl.stored = IF xc.outcome = "resolved"
                                      THEN StorageData(xc.resp, xc.state) ELSE NoStorage]
    /\ UNCHANGED <<now, build, last, cache, vc, cv, dc, sv, fj, storage, ev, tx, cb>>

\* exchangeTokenFromCode ended: when it resolved, the call awaits
\* transactionManager.clear(); when it threw, the call throws the same.
HandleExchanged ==
    /\ oc.hl.pc = "exchange"
    /\ xc.pc = "done"
    /\ xc' = IdleExchange
    /\ oc' = IF xc.outcome = "resolved"
             THEN [oc EXCEPT !.hl.pc = "clearTx",
                             !.hl.stored = StorageData(xc.resp, xc.state)]
             ELSE [oc EXCEPT !.hl.pc = "done", !.hl.outcome = "AuthError"]
    /\ UNCHANGED <<now, build, last, cache, vc, cv, dc, sv, fj, storage, ev, tx, cb>>

\* transactionManager.clear() ends: syncAuthInfo() starts.
HandleClearTx ==
    /\ oc.hl.pc = "clearTx"
    /\ tx' = NoTransaction
    /\ oc' = [oc EXCEPT !.hl.pc = "sync1"]
    /\ UNCHANGED <<now, build, last, cache, vc, cv, dc, sv, fj, login, ev, cb>>

\* syncAuthInfo() of the call goes on after an await; when it has ended the
\* call returns getAuthState().
HandleSync ==
    /\ oc.hl.pc \in SyncSteps
    /\ LET r == syncAuthInfo(oc.hl, storage, now, oc.authState)
       IN  oc' = IF r.call.pc = "synced"
                 THEN [oc EXCEPT !.authState = r.authState,
                                 !.hl = [r.call EXCEPT !.pc = "done",
                                                       !.outcome = "authState",
                                                       !.returned = r.authState]]
                 ELSE [oc EXCEPT !.authState = r.authState, !.hl = r.call]
    /\ UNCHANGED <<now, build, last, cache, vc, cv, dc, sv, fj, login, ev, tx, cb>>

\* The application takes the outcome of its handleLoginRedirect call.
HandleReturn ==
    /\ oc.hl.pc = "done"
    /\ oc.hl.by = "app"
    /\ oc' = [oc EXCEPT !.hl = IdleHandle]
    /\ UNCHANGED <<now, build, last, cache, vc, cv, dc, sv, fj, login, ev, tx, cb>>

\* The POST of the exchange ends.
SessionExchangeRespond == ExchangeRespondWith(SessionResponses)

\* logout(logoutReturnTo, skipBrowserLogout) is called: clearStorage() awaits
\* tokenManager.clear().
LogoutStart ==
    /\ oc.lo.pc = "idle"
    /\ \E skip \in BOOLEAN :
        oc' = [oc EXCEPT !.lo = [IdleLogout EXCEPT !.pc = "clearTokens", !.skip = skip]]
    /\ UNCHANGED <<now, build, last, cache, vc, cv, dc, sv, fj, login, ev, tx, cb>>

\* tokenManager.clear() ends: the stored object is removed and
\* transactionManager.clear() awaited, or the call throws.
LogoutClearTokens ==
    /\ oc.lo.pc = "clearTokens"
    /\ \E removed \in BOOLEAN :
        IF removed
        THEN /\ storage' = NoStorage
             /\ oc' = [oc EXCEPT !.lo.pc = "clearTx"]
        ELSE /\ storage' = storage
             /\ oc' = [oc EXCEPT !.lo.pc = "done", !.lo.outcome = "Error"]
    /\ UNCHANGED <<now, build, last, cache, vc, cv, dc, sv, fj, xc, ev, tx, cb>>

\* transactionManager.clear() ends: authInfoManager.clear(); then the browser
\* is opened on the logout URL, unless the step is skipped, the instance has
\* no logoutEndPoint, or new URL(logoutEndPoint) throws (which is caught).
LogoutClearTx ==
    /\ oc.lo.pc = "clearTx"
    /\ tx' = NoTransaction
    /\ oc' = CASE oc.lo.skip \/ oc.logoutEndPoint = "none" ->
                    [oc EXCEPT !.authState = NoAuthState, !.lo.pc = "done",
                               !.lo.browser = "skipped", !.lo.outcome = "returned"]
               [] ~oc.lo.skip /\ oc.logoutEndPoint = "invalid" ->
                    [oc EXCEPT !.authState = NoAuthState, !.lo.pc = "done",
                               !.lo.browser = "throws", !.lo.outcome = "returned"]
               [] OTHER ->
                    [oc EXCEPT !.authState = NoAuthState, !.lo.pc = "browser"]
    /\ UNCHANGED <<now, build, last, cache, vc, cv, dc, sv, fj, login, ev, cb>>

\* openAuthSessionAsync ends, by a result or by a rejection that is caught:
\* logout returns.
LogoutBrowser ==
    /\ oc.lo.pc = "browser"
    /\ \E result \in LogoutBrowserResults :
        oc' = [oc EXCEPT !.lo.pc = "done", !.lo.browser = result,
                         !.lo.outcome = "returned"]
    /\ UNCHANGED <<now, build, last, cache, vc, cv, dc, sv, fj, login, ev, tx, cb>>

\* The caller takes the outcome of logout.
LogoutReturn ==
    /\ oc.lo.pc = "done"
    /\ oc' = [oc EXCEPT !.lo = IdleLogout]
    /\ UNCHANGED <<now, build, last, cache, vc, cv, dc, sv, fj, login, ev, tx, cb>>

NextSession ==
    \/ SignInStart
    \/ SignInSaved
    \/ SignInBrowser
    \/ SignInHandled
    \/ SignInReturn
    \/ HandleStart
    \/ HandleMeta
    \/ SessionExchangeRespond
    \/ FetchRespond
    \/ FetchTimeout
    \/ VerifyFinish
    \/ ExchangeVerified
    \/ ExchangeStored
    \/ HandleExchanged
    \/ HandleClearTx
    \/ HandleSync
    \/ HandleReturn
    \/ Tick

\* The login round trip.
SpecSession == InitSession /\ [][NextSession]_vars

NextLogout ==
    \/ NextSession
    \/ LogoutStart
    \/ LogoutClearTokens
    \/ LogoutClearTx
    \/ LogoutBrowser
    \/ LogoutReturn

\* The login round trip with logout() calls beside it.
SpecLogout == InitSession /\ [][NextLogout]_vars

\* ================================================================ properties
\* Vocabulary of the properties, stated on the token itself.

\* The token splits into three segments whose first two decode to JSON.
WellFormed(t) == t.n = 3 /\ t.hdr.enc = "json" /\ t.pl.enc = "json"

\* The signature segment is 64 bytes that are an ECDSA signature, under the
\* key pair mat, of the token's own first two segments.
SigGoodFor(t, mat) ==
    /\ t.sig.dec
    /\ t.sig.len = 64
    /\ t.sig.signer = mat
    /\ t.sig.over = <<t.hdr, t.pl>>

\* A P-256 EC key with usable coordinates.
UsableKey(k) == k.kty = "EC" /\ k.crv = "P-256" /\ k.mat \notin {"missing", "none"}

\* The key sequence holds the key.
InKeys(keys, k) == \E i \in DOMAIN keys : keys[i] = k

\* The first key of the sequence with that kid, NoKey if there is none.
KeyOfKid(keys, kid) ==
    IF \E i \in DOMAIN keys : keys[i].kid = kid
    THEN keys[CHOOSE i \in DOMAIN keys :
                /\ keys[i].kid = kid
                /\ \A j \in DOMAIN keys : keys[j].kid = kid => i <= j]
    ELSE NoKey

\* The call has ended.
Done == vc.pc = "done"

\* The call returned { valid: true, ... }.
ReturnedValid == Done /\ ~vc.result.threw /\ vc.result.valid

\* The call returned { valid: false, error } with a reason and nothing else.
ReturnedInvalid ==
    /\ Done
    /\ ~vc.result.threw
    /\ ~vc.result.valid
    /\ vc.result.fields = {"valid", "error"}
    /\ vc.result.error.msg # ""

\* The reasons that refer to the signature.
SignatureReasons ==
    {"JWT signature verification failed",
     "JWT signature verification failed - token may be forged or tampered"}

\* C1: verifyJWT returns valid = true only if, in that call, the token decoded
\* into three parts, alg is ES256, a key was resolved from the fetched key
\* set, the ECDSA signature over the signing input verified against that key
\* and claims validation gave an empty error list.
C1_ValidOnlyThroughAllGates ==
    ReturnedValid =>
        /\ WellFormed(vc.token)
        /\ vc.token.hdr.val = "object"
        /\ vc.token.hdr.alg = ES256
        /\ vc.gotKeys
        /\ vc.cacheReads = 1
        /\ InKeys(vc.jwks, vc.jwk)
        /\ UsableKey(vc.jwk)
        /\ vc.sigRan
        /\ SigGoodFor(vc.token, vc.jwk.mat)
        /\ vc.claimsRan
        /\ vc.claimsErrors = <<>>
        /\ vc.token.pl.exp.t = "number"
        /\ vc.token.pl.exp.n >= vc.claimsAt
        /\ vc.result.fields = {"valid", "payload", "header"}
        /\ vc.result.header = vc.token.hdr
        /\ vc.result.payload = vc.token.pl

C1_Witness ==
    /\ ReturnedValid
    /\ vc.token.hdr.kid = Str("k1")
    /\ vc.jwk = K1
    /\ vc.netRequests = 1

\* C2: when the signature does not verify against the resolved key while alg,
\* kid and claims are acceptable, verifyJWT returns invalid with a reason that
\* refers to the signature and verifyToken returns false.
C2_BadSignatureRejected ==
    ( /\ Done
      /\ WellFormed(vc.token)
      /\ vc.token.hdr.alg = ES256
      /\ vc.gotKeys
      /\ vc.jwk # NoKey
      /\ UsableKey(vc.jwk)
      /\ ~SigGoodFor(vc.token, vc.jwk.mat) )
    =>  /\ ReturnedInvalid
        /\ vc.result.error.msg \in SignatureReasons
        /\ vc.verified = "false"

C2_Witness ==
    /\ Done
    /\ vc.token = Signed(GoodHdr, GoodPl, "nobody")
    /\ vc.jwk = K1
    /\ vc.hashOk
    /\ vc.result.error.msg \in SignatureReasons

\* C3: verifyJWT never throws: whatever the input, a call that does not
\* return valid returns an invalid outcome with a reason string and no header
\* or payload; malformed tokens, other algorithms, failed key set fetches,
\* unknown kids, unsupported keys, bad signatures and failing claims do so.
C3_NeverThrows ==
    Done =>
        /\ ~vc.result.threw
        /\ ReturnedValid \/ ReturnedInvalid
        /\ ( \/ ~WellFormed(vc.token)
             \/ vc.token.hdr.alg # ES256
             \/ ~vc.gotKeys
             \/ vc.jwk = NoKey
             \/ ~UsableKey(vc.jwk)
             \/ ~SigGoodFor(vc.token, vc.jwk.mat)
             \/ vc.token.pl.val = "null"
             \/ vc.token.pl.exp.t # "number"
             \/ vc.sigRan /\ ~vc.hashOk ) => ReturnedInvalid

C3_Witness ==
    /\ ReturnedInvalid
    /\ vc.netRequests = 1
    /\ ~vc.gotKeys
    /\ vc.result.error.msg = "Failed to fetch JWKS"

\* C4: for a token whose header alg is not ES256 (HS256, none, missing)
\* verifyJWT returns invalid without having read the cache or sent a key set
\* request in that call.
C4_AlgorithmGateFirst ==
    ( /\ vc.pc # "idle"
      /\ WellFormed(vc.token)
      /\ vc.token.hdr.alg # ES256 )
    =>  /\ ReturnedInvalid
        /\ vc.cacheReads = 0
        /\ vc.netRequests = 0
        /\ ~vc.gotKeys
        /\ ~vc.sigRan

C4_Witness ==
    /\ ReturnedInvalid
    /\ vc.token.hdr.alg = Str("HS256")
    /\ vc.result.error.msg = "Unsupported algorithm"
    /\ vc.cacheReads = 0

C6_KeylessOnlySoleKey ==
    ( /\ Done
      /\ WellFormed(vc.token)
      /\ vc.token.hdr.alg = ES256
      /\ vc.gotKeys
      /\ vc.token.hdr.kid = Undef )
    =>  /\ ReturnedValid => Len(vc.jwks) = 1
        /\ Len(vc.jwks) >= 2 => ReturnedInvalid

\* The key set the call got from fetchJWKS or, when the call ended before
\* asking, the fresh key set an earlier call fetched into the cache.
C7_KeySet ==
    IF vc.gotKeys THEN vc.jwks
    ELSE IF JWKSCacheHit(cache, vc.url, now) THEN cache[vc.url].jwks
    ELSE <<>>

\* The preconditions C7 names: a well-formed ES256 token whose kid names a
\* P-256 EC key of the fetched key set, signed under that key, exp not in the
\* past, iss and aud as expected (and the platform digest works).
C7_Named ==
    /\ Done
    /\ WellFormed(vc.token)
    /\ vc.token.hdr.val = "object"
    /\ vc.token.hdr.alg = ES256
    /\ vc.gotKeys \/ JWKSCacheHit(cache, vc.url, now)
    /\ vc.token.hdr.kid.t = "string"
    /\ vc.token.hdr.kid.s # ""
    /\ UsableKey(KeyOfKid(C7_KeySet, vc.token.hdr.kid.s))
    /\ SigGoodFor(vc.token, KeyOfKid(C7_KeySet, vc.token.hdr.kid.s).mat)
    /\ vc.sigRan => vc.hashOk
    /\ vc.token.pl.val = "object"
    /\ vc.token.pl.exp.t = "number"
    /\ vc.token.pl.exp.n >= NowSeconds(now)
    /\ vc.options = Options(Str("OpenCampus"), Str("sandbox"))
    /\ vc.token.pl.iss = Str("OpenCampus")
    /\ Includes(Audiences(vc.token.pl.aud), Str("sandbox"))

\* The call returned valid with the decoded header and payload.
C7_Returned ==
    /\ ReturnedValid
    /\ vc.result.header = vc.token.hdr
    /\ vc.result.payload = vc.token.pl

\* C7: for every well-formed ES256 token whose kid names a P-256 EC key of the
\* fetched key set, whose signature verifies under that key, whose exp is not
\* in the past and whose iss and aud match, verifyJWT returns valid with the
\* decoded header and payload. Stated for the tokens that carry neither nbf
\* nor iat, of which the claim does not speak.
C7_NamedTokenValid ==
    ( /\ C7_Named
      /\ vc.token.pl.nbf = Undef
      /\ vc.token.pl.iat = Undef )
    => C7_Returned

\* What holds of the tokens C7 names: those whose exp is within the range of
\* a Date and whose nbf and iat, where present, are numbers not after the
\* time of the validation are valid.
C7_ValidTokenAccepted ==
    ( /\ C7_Named
      /\ DateInRange(vc.token.pl.exp)
      /\ \/ vc.token.pl.nbf = Undef
         \/ vc.token.pl.nbf.t = "number" /\ (vc.claimsRan => vc.token.pl.nbf.n <= vc.claimsAt)
      /\ \/ vc.token.pl.iat = Undef
         \/ vc.token.pl.iat.t = "number" /\ (vc.claimsRan => vc.token.pl.iat.n <= vc.claimsAt) )
    => C7_Returned

C7_Reached ==
    /\ C7_Returned
    /\ vc.token.pl.nbf = Num(S0)
    /\ vc.claimsAt = S0
    /\ vc.options = Options(Str("OpenCampus"), Str("sandbox"))

\* C9: verifyToken never throws and returns true if and only if verifyJWT,
\* called with the same arguments, returns a valid outcome.
C9_BooleanFormAgrees ==
    Done =>
        /\ vc.verified \in {"true", "false"}
        /\ vc.verified = "true" <=> ReturnedValid

\* The error list of the validateClaims call holds the message.
Reports(msg) == Includes(cv.res.errors, msg)

ExpMessages ==
    {"exp claim is required but missing", "exp claim must be a number", "Token has expired"}

\* C10: claims validation reports an error whenever exp is missing, is not a
\* number or is less than the current Unix time, and no exp error when exp is
\* greater than or equal to it: exp one second in the past is invalid, exp
\* equal to now is accepted.
C10_ExpRule ==
    cv.pc = "done" =>
        /\ cv.payload.exp = Undef
            => Reports("exp claim is required but missing") /\ ~cv.res.valid
        /\ cv.payload.exp.t \notin {"undefined", "number"}
            => Reports("exp claim must be a number") /\ ~cv.res.valid
        /\ cv.payload.exp.t = "number" /\ cv.payload.exp.n < cv.at
            => Reports("Token has expired") /\ ~cv.res.valid
        /\ cv.payload.exp.t = "number" /\ cv.payload.exp.n >= cv.at
            => \A m \in ExpMessages : ~Reports(m)
        /\ ( /\ cv.payload.exp = Num(cv.at)
             /\ cv.payload.nbf = Undef
             /\ cv.payload.iat = Undef
             /\ cv.options = Options(Undef, Undef) ) => cv.res.valid

C10_Witness ==
    /\ cv.pc = "done"
    /\ cv.at = S0 + 1
    /\ cv.payload.exp = Num(S0 + 1)
    /\ cv.res.valid
    /\ cv.options = Options(Str("OpenCampus"), Str("sandbox"))

\* The exchange call wrote to the token storage in this step.
Stored == storage' # storage /\ storage' # NoStorage

\* C8: exchangeTokenFromCode writes access_token, id_token and expired to the
\* token storage only after verifyToken returned true for the received
\* id_token; on every failure path it throws AuthError and leaves the token
\* storage as it was.
C8_StoreOnlyVerified ==
    [][ /\ Stored =>
            /\ xc.pc = "storing"
            /\ xc.verified = "true"
            /\ xc'.outcome = "resolved"
            /\ HasTokens(xc.resp)
            /\ WellFormed(xc.resp.id_token)
            /\ xc.resp.id_token.hdr.alg = ES256
            /\ \E k \in {K1, K2} : SigGoodFor(xc.resp.id_token, k.mat)
            /\ xc.resp.id_token.pl.iss = Str("OpenCampus")
            /\ Includes(Audiences(xc.resp.id_token.pl.aud), Str(ClientId))
            /\ storage'.access_token = xc.resp.access_token
            /\ storage'.id_token = xc.resp.id_token
            /\ storage'.expired = xc.resp.access_token.exp
        /\ (xc.pc # "done" /\ xc'.pc = "done") =>
            /\ xc'.outcome \in {"resolved", "AuthError"}
            /\ xc'.outcome = "resolved" => Stored \/ storage' = StorageData(xc.resp, xc.state)
            /\ xc'.outcome = "AuthError" => storage' = storage
            /\ ( \/ ~HasTokens(xc'.resp)
                 \/ xc'.verified = "false"
                 \/ ~xc'.resp.access_token.parses ) => xc'.outcome = "AuthError"
      ]_vars

C8_Witness ==
    /\ xc.pc = "done"
    /\ xc.outcome = "AuthError"
    /\ xc.verified = "false"
    /\ xc.resp.id_token = Signed(GoodHdr, GoodPl, "nobody")
    /\ storage.present
    /\ storage.id_token = Signed(GoodHdr, GoodPl, "m1")

\* The expected audience is one of the aud values of the payload: aud itself
\* when it is a scalar, one of its elements when it is an array.
AudMember(aud, expected) ==
    IF aud.t = "array"
    THEN expected.t = "string" /\ \E i \in DOMAIN aud.a : aud.a[i] = expected.s
    ELSE aud # Undef /\ aud = expected

\* The claims validation of the call ran on a payload that is an object.
ClaimsChecked == Done /\ vc.claimsRan /\ vc.token.pl.val = "object"

\* The call returned invalid because of its claims, with msg among the
\* violations its reason lists.
ClaimsReason(msg) ==
    /\ ReturnedInvalid
    /\ vc.result.error.msg = "JWT claims validation failed"
    /\ Includes(vc.result.error.detail, msg)

\* C11: when expectedAudience is given (a non-empty string), claims validation
\* reports an audience error exactly when expectedAudience is not among the
\* token's aud values, a scalar aud counting as a one-element sequence and a
\* missing aud as no match; a mismatch makes verifyJWT invalid, with a reason
\* that mentions the audience once the claims are validated; without
\* expectedAudience there is no audience error.
C11_AudienceRule ==
    /\ ClaimsChecked =>
        /\ Truthy(vc.options.expectedAudience) =>
            /\ Includes(vc.claimsErrors, "Invalid audience")
                    <=> ~AudMember(vc.token.pl.aud, vc.options.expectedAudience)
            /\ ~AudMember(vc.token.pl.aud, vc.options.expectedAudience)
                    => ClaimsReason("Invalid audience")
        /\ ~Truthy(vc.options.expectedAudience)
            => ~Includes(vc.claimsErrors, "Invalid audience")
    /\ ( /\ Done
         /\ Truthy(vc.options.expectedAudience)
         /\ ~AudMember(vc.token.pl.aud, vc.options.expectedAudience) ) => ~ReturnedValid

C11_Witness ==
    /\ ClaimsChecked
    /\ vc.token.pl.aud = Str("other")
    /\ vc.options.expectedAudience = Str("sandbox")
    /\ vc.claimsErrors = <<"Invalid audience">>
    /\ ClaimsReason("Invalid audience")

\* C12: when expectedIssuer is given (a non-empty string), claims validation
\* reports an issuer error for every payload whose iss is not exactly equal to
\* it, a missing iss included, and none when they are equal; without
\* expectedIssuer there is no issuer error.
C12_IssuerRule ==
    cv.pc = "done" =>
        /\ Truthy(cv.options.expectedIssuer) =>
            /\ Reports("Invalid issuer") <=> cv.payload.iss # cv.options.expectedIssuer
            /\ cv.payload.iss # cv.options.expectedIssuer => ~cv.res.valid
        /\ ~Truthy(cv.options.expectedIssuer) => ~Reports("Invalid issuer")

C12_Witness ==
    /\ cv.pc = "done"
    /\ cv.payload.iss = Undef
    /\ cv.options.expectedIssuer = Str("OpenCampus")
    /\ cv.res.errors = <<"Invalid issuer">>

NbfMessages == {"nbf claim must be a number", "Token not yet valid (nbf claim)"}

\* C13: a payload whose nbf is present and greater than the current Unix time
\* is rejected by claims validation; a payload whose nbf is less than or equal
\* to now, or that has no nbf, gets no nbf error.
C13_NbfRule ==
    cv.pc = "done" =>
        /\ cv.payload.nbf.t = "number" /\ cv.payload.nbf.n > cv.at
            => Reports("Token not yet valid (nbf claim)") /\ ~cv.res.valid
        /\ ( \/ cv.payload.nbf = Undef
             \/ cv.payload.nbf.t = "number" /\ cv.payload.nbf.n <= cv.at )
            => \A m \in NbfMessages : ~Reports(m)

C13_Witness ==
    /\ cv.pc = "done"
    /\ cv.payload.nbf = Num(S0 + 1)
    /\ cv.at = S0
    /\ cv.res.errors = <<"Token not yet valid (nbf claim)">>

IatMessages == {"iat claim must be a number", "Token issued in the future (iat claim)"}

\* C14: a token whose iat is present and greater than the current Unix time
\* is rejected by claims validation, so verifyJWT returns invalid for it; a
\* token without iat gets no iat error.
C14_FutureIatRejected ==
    /\ ( /\ Done
         /\ WellFormed(vc.token)
         /\ vc.token.pl.val = "object"
         /\ vc.token.pl.iat.t = "number"
         /\ vc.token.pl.iat.n > NowSeconds(now) )
        =>  /\ ReturnedInvalid
            /\ vc.claimsRan => ClaimsReason("Token issued in the future (iat claim)")
    /\ (ClaimsChecked /\ vc.token.pl.iat = Undef)
        => \A m \in IatMessages : ~Includes(vc.claimsErrors, m)

\* The rules of claims validation, stated on the payload: which of them a
\* payload violates at time at (seconds) under the options.
ExpViolated(pl, at) == pl.exp.t # "number" \/ pl.exp.n < at

NbfViolated(pl, at) == pl.nbf # Undef /\ (pl.nbf.t # "number" \/ pl.nbf.n > at)

IatViolated(pl, at) == pl.iat # Undef /\ (pl.iat.t # "number" \/ pl.iat.n > at)

IssViolated(pl, o) == Truthy(o.expectedIssuer) /\ pl.iss # o.expectedIssuer

AudViolated(pl, o) == Truthy(o.expectedAudience) /\ ~AudMember(pl.aud, o.expectedAudience)

One(b) == IF b THEN 1 ELSE 0

\* The error list of the call holds one of the messages.
Lists(msgs) == \E m \in msgs : Includes(vc.claimsErrors, m)

\* The number of rules the payload of the call violates.
NumViolated ==
    One(ExpViolated(vc.token.pl, vc.claimsAt))
    + One(NbfViolated(vc.token.pl, vc.claimsAt))
    + One(IatViolated(vc.token.pl, vc.claimsAt))
    + One(IssViolated(vc.token.pl, vc.options))
    + One(AudViolated(vc.token.pl, vc.options))

\* The error list of the call has an error for each of exp, nbf, iss and aud
\* that the payload violates, and for no other of them.
FourRulesReported ==
    /\ Lists(ExpMessages) <=> ExpViolated(vc.token.pl, vc.claimsAt)
    /\ Lists(NbfMessages) <=> NbfViolated(vc.token.pl, vc.claimsAt)
    /\ Lists({"Invalid issuer"}) <=> IssViolated(vc.token.pl, vc.options)
    /\ Lists({"Invalid audience"}) <=> AudViolated(vc.token.pl, vc.options)

\* The call is valid exactly when the list is empty, and an invalid reason
\* carries the whole list.
ListDecides ==
    /\ ReturnedValid <=> vc.claimsErrors = <<>>
    /\ vc.claimsErrors # <<>> =>
        /\ ReturnedInvalid
        /\ vc.result.error.msg = "JWT claims validation failed"
        /\ vc.result.error.detail = vc.claimsErrors

\* C15: claims validation evaluates every rule independently and does not
\* stop at the first violation: the error list has one error per violated
\* rule (exp, nbf, iat, iss, aud), the result is valid exactly when the list is
\* empty, and the invalid reason of verifyJWT mentions all of them.
C15_AllViolationsReported ==
    ClaimsChecked =>
        /\ ListDecides
        /\ NumViolated >= 2 =>
            /\ FourRulesReported
            /\ Lists(IatMessages) <=> IatViolated(vc.token.pl, vc.claimsAt)
            /\ Len(vc.claimsErrors) = NumViolated

\* What holds of both revisions: the rules each of them has (iat only in the
\* one that checks it) are evaluated independently and all reported.
C15_EnforcedRulesReported ==
    ClaimsChecked =>
        /\ FourRulesReported
        /\ Lists(IatMessages) <=> (ChecksIat(build) /\ IatViolated(vc.token.pl, vc.claimsAt))
        /\ Len(vc.claimsErrors) =
                One(ExpViolated(vc.token.pl, vc.claimsAt))
                + One(NbfViolated(vc.token.pl, vc.claimsAt))
                + One(ChecksIat(build) /\ IatViolated(vc.token.pl, vc.claimsAt))
                + One(IssViolated(vc.token.pl, vc.options))
                + One(AudViolated(vc.token.pl, vc.options))
        /\ ListDecides

C15_Reached ==
    /\ ClaimsChecked
    /\ vc.claimsErrors = <<"Token has expired", "Invalid issuer", "Invalid audience">>
    /\ vc.result.error.detail = vc.claimsErrors

\* The step in which a call starts and reaches fetchJWKS(url).
FetchCalled == vc.pc = "idle" /\ vc'.pc # "idle" /\ vc'.cacheReads = 1

\* The step in which the key set request of a call ends with a key set.
FetchSucceeded == vc.pc = "fetching" /\ vc'.pc = "keys"

\* The entry of the url has an age of at most one hour.
Fresh(url) == cache[url].present /\ now - cache[url].timestamp <= CACHE_TTL

\* The entry of the url has an age of more than one hour.
Stale(url) == cache[url].present /\ now - cache[url].timestamp > CACHE_TTL

\* C16: after a successful fetchJWKS(url) (the entry it stored is the key set
\* it received, stamped with the time of storing, and stays as it is until it
\* is cleared, deleted as stale or stored again), every later fetchJWKS(url)
\* made while no more than 1 hour has passed since the entry was stored
\* returns the cached key set and sends no request.
C16_FreshEntryServed ==
    [][ /\ \A u \in Urls :
            (cache'[u] # cache[u] /\ cache'[u].present) =>
                /\ FetchSucceeded
                /\ u = vc.url
                /\ cache'[u].jwks = vc'.jwks
                /\ cache'[u].timestamp = now
        /\ (FetchCalled /\ Fresh(vc'.url)) =>
                /\ vc'.pc = "keys"
                /\ vc'.gotKeys
                /\ vc'.jwks = cache[vc'.url].jwks
                /\ vc'.netRequests = 0
                /\ cache' = cache
      ]_vars

C16_Witness ==
    /\ vc.pc = "keys"
    /\ vc.netRequests = 0
    /\ vc.jwks = <<K1, K2>>
    /\ cache[vc.url].timestamp = T0
    /\ now = T0 + CACHE_TTL

\* C17: once more than 1 hour has passed since the entry of a url was stored,
\* cache hits in between not renewing it, the next fetchJWKS(url) treats the
\* entry as absent and sends exactly one request; on success the entry is
\* the new key set with the time of storing.
C17_StaleEntryRefetched ==
    [][ /\ (FetchCalled /\ vc'.netRequests = 0) => cache' = cache
        /\ (FetchCalled /\ Stale(vc'.url)) =>
                /\ vc'.pc = "fetching"
                /\ ~vc'.gotKeys
                /\ vc'.netRequests = 1
                /\ vc'.evicted
                /\ cache' = [cache EXCEPT ![vc'.url] = NoEntry]
        /\ vc'.netRequests <= 1
        /\ vc.pc = "fetching" => vc'.netRequests = vc.netRequests
        /\ FetchSucceeded =>
                cache' = [cache EXCEPT ![vc.url] =
                            [present |-> TRUE, jwks |-> vc'.jwks, timestamp |-> now]]
        /\ (vc.pc = "fetching" /\ vc'.pc = "done") => cache' = cache
      ]_vars

C17_Witness ==
    /\ vc.pc = "keys"
    /\ vc.evicted
    /\ vc.netRequests = 1
    /\ vc.jwks = <<K2>>
    /\ now = T0 + CACHE_TTL + 1
    /\ cache[vc.url] = [present |-> TRUE, jwks |-> <<K2>>, timestamp |-> now]

\* The key set endpoint did not change between the calls a and b: when both
\* sent a request, the requests ended alike (the same key set, or the same
\* failure); when only b sent one, it got the key set a had from the cache.
EndpointUnchanged(a, b) ==
    /\ (a.netRequests = 1 /\ b.netRequests = 1) =>
            /\ a.gotKeys = b.gotKeys
            /\ a.jwks = b.jwks
            /\ ~a.gotKeys => a.result.error = b.result.error
    /\ (a.netRequests = 0 /\ b.netRequests = 1 /\ a.gotKeys) =>
            b.gotKeys /\ b.jwks = a.jwks

\* The platform behaved alike in both calls (digest, decoding of coordinates).
SamePlatform(a, b) ==
    /\ (a.sigRan /\ b.sigRan) => a.hashOk = b.hashOk
    /\ a.coordsThrow = b.coordsThrow

\* The clock did not move across a numeric claim value between the two
\* validations.
SameSide(v, a, b) ==
    v.t = "number" => ((v.n < a) <=> (v.n < b)) /\ ((v.n > a) <=> (v.n > b))

SameTime(a, b) ==
    (a.claimsRan /\ b.claimsRan) =>
        /\ SameSide(a.token.pl.exp, a.claimsAt, b.claimsAt)
        /\ SameSide(a.token.pl.nbf, a.claimsAt, b.claimsAt)
        /\ SameSide(a.token.pl.iat, a.claimsAt, b.claimsAt)

\* C18: two verifyJWT calls in succession with the same token, url and
\* options, with no clock movement across exp, nbf or iat and an unchanged
\* key set endpoint, return the same outcome: the same valid flag and the same
\* header and payload, or the same reason.
C18_SameOutcomeTwice ==
    ( /\ last.called
      /\ Done
      /\ EndpointUnchanged(last.call, vc)
      /\ SamePlatform(last.call, vc)
      /\ SameTime(last.call, vc) )
    =>  /\ vc.token = last.call.token
        /\ vc.options = last.call.options
        /\ vc.result = last.call.result
        /\ vc.verified = last.call.verified

C18_Witness ==
    /\ last.called
    /\ ReturnedValid
    /\ last.call.netRequests = 1
    /\ vc.netRequests = 0
    /\ vc.token.hdr.kid = Str("k2")
    /\ vc.result = last.call.result

\* C19: fetchJWKS throws whenever the response status is not successful or the
\* body is not an object with an array-valued keys member (as for every other
\* request that does not end in a key set), and a verifyJWT call that meets
\* such a failure returns an invalid outcome: it does not throw, and does not
\* go on to verify or trust the token.
C19_FetchFailureInvalid ==
    /\ vc.response \notin {"none", "ok"} =>
        /\ ReturnedInvalid
        /\ vc.result.error.msg = "Failed to fetch JWKS"
        /\ vc.verified = "false"
        /\ ~vc.gotKeys
        /\ vc.jwk = NoKey
        /\ ~vc.sigRan
        /\ ~vc.claimsRan
    /\ vc.gotKeys => vc.response = "ok" \/ (vc.response = "none" /\ vc.netRequests = 0)
    /\ (Done /\ vc.netRequests = 1 /\ ~vc.gotKeys)
            => vc.response \in {"http-error", "bad-json", "bad-format", "network-error", "timeout"}

C19_Witness ==
    /\ ReturnedInvalid
    /\ vc.response = "bad-format"
    /\ vc.token = Signed(GoodHdr, GoodPl, "m1")
    /\ vc.result.error.detail = <<"Invalid JWKS format: missing keys array">>

\* The clock of the model reaches the instant at which a timer set now for
\* the key set request is due.
TimerInReach(sentAt) == \E t \in Instants : t >= sentAt + FETCH_TIMEOUT

\* C20: a key set fetch never hangs: when the endpoint does not respond,
\* fetchJWKS fails in the end (bounded by the 10 second timeout), so every
\* verifyJWT call eventually returns an outcome.
C20_FetchNeverHangs ==
    (vc.pc = "fetching" /\ TimerInReach(vc.sentAt)) ~> Done

\* What holds: a call whose request carries the abort signal returns.
C20_SignalledFetchEnds ==
    (vc.pc = "fetching" /\ vc.signal /\ TimerInReach(vc.sentAt)) ~> Done

\* ---------------------------------------------------------------- fetchJWKS calls
\* Call i of fetchJWKS starts in this step.
Began(i) == fj.calls[i].pc = "idle" /\ fj'.calls[i].pc # "idle"

\* The request of call i is answered with a key set in this step.
Answered(i) == fj.calls[i].pc = "fetching" /\ fj'.calls[i].pc = "done" /\ ~fj'.calls[i].threw

\* The entry JWKSCache.set writes for a key set at an instant.
EntryOf(jwks, at) == [present |-> TRUE, jwks |-> jwks, timestamp |-> at]

\* C21: fetchJWKS calls for the same uncached or stale URL that are in flight
\* at once are not de-duplicated: each call that finds no fresh entry sends
\* its own request, whatever the other calls do, each returns the key set its
\* own request was answered with and leaves the other calls alone, and each
\* store overwrites the URL's one entry with its key set and the time of the
\* store, so that the entry is that of the call that stored last.
C21_ConcurrentFetches ==
    [][\A i \in Slots :
        /\ Began(i) /\ ~Fresh(fj'.calls[i].url) =>
                /\ fj'.calls[i].pc = "fetching"
                /\ fj'.calls[i].netRequests = 1
        /\ Answered(i) =>
                /\ fj'.calls[i].netRequests = 1
                /\ fj'.calls[i].jwks = fj'.calls[i].response.keys
                /\ cache'[fj.calls[i].url] = EntryOf(fj'.calls[i].response.keys, now)
                /\ \A j \in Slots \ {i} : fj'.calls[j] = fj.calls[j]]_vars

\* Two calls for the same URL were in flight at once, were answered with
\* different key sets, each returned its own, and the entry is that of one.
C21_Witness ==
    \E i \in Slots : \E j \in Slots \ {i} :
        /\ fj.calls[i].pc = "done" /\ fj.calls[j].pc = "done"
        /\ fj.calls[i].url = fj.calls[j].url
        /\ fj.calls[j].overlap
        /\ fj.calls[i].netRequests = 1 /\ fj.calls[j].netRequests = 1
        /\ ~fj.calls[i].threw /\ ~fj.calls[j].threw
        /\ fj.calls[i].jwks # fj.calls[j].jwks
        /\ cache[fj.calls[i].url].present
        /\ cache[fj.calls[i].url].jwks = fj.calls[i].jwks

\* ---------------------------------------------------------------- one call
\* How far a call has come.
Rank(pc) ==
    CASE pc = "idle" -> 0
      [] pc = "fetching" -> 1
      [] pc = "keys" -> 2
      [] pc = "done" -> 3

\* The key set request of the call fails in this step.
FetchFails == vc.pc = "fetching" /\ vc'.response \notin {"none", "ok"}

\* C22: a verifyJWT call is one-shot: it looks into the cache and sends a key
\* set request at most once, and sends it in the step in which the caller
\* invokes verifyJWT and in no other; it never goes back to an earlier step;
\* a failed key set fetch ends it at once with an invalid outcome; and a call
\* that has ended stays as it is until the caller takes the result.
C22_OneShot ==
    [][ /\ vc'.netRequests <= 1
        /\ vc'.cacheReads <= 1
        /\ vc'.netRequests > vc.netRequests => vc.pc = "idle"
        /\ vc'.pc # "idle" => Rank(vc'.pc) >= Rank(vc.pc)
        /\ FetchFails =>
            /\ ReturnedInvalid'
            /\ vc'.result.error.msg = "Failed to fetch JWKS"
            /\ vc'.netRequests = 1
            /\ ~vc'.gotKeys
        /\ vc.pc = "done" => vc' = vc \/ vc' = IdleCall ]_vars

C22_Witness ==
    /\ ReturnedInvalid
    /\ vc.response = "network-error"
    /\ vc.netRequests = 1
    /\ vc.cacheReads = 1
    /\ ~vc.evicted
    /\ now > T0

\* ---------------------------------------------------------------- gates
\* The reasons each gate of verifyJWT gives.
DecodeReasons ==
    {"Cannot read properties of undefined", "Invalid JWT format: must have 3 parts",
     "Failed to decode JWT"}

AlgorithmReasons == {"Unsupported algorithm", "Cannot read properties of null"}

FetchReasons == {"Failed to fetch JWKS"}

ResolutionReasons ==
    {"Key with kid not found in JWKS", "No kid in JWT header and no keys in JWKS"}

ConversionReasons ==
    {"Unsupported key type", "Unsupported curve", "Cannot read properties of undefined"}

ClaimsReasons == {"JWT claims validation failed", "Cannot read properties of null"}

\* The call returned invalid with one of the reasons.
Reason(msgs) == ReturnedInvalid /\ vc.result.error.msg \in msgs

\* The gates that ran in the call.
GatesRun ==
    (IF vc.cacheReads = 1 THEN {"fetch"} ELSE {})
        \cup (IF vc.keyBy # "none" THEN {"resolution"} ELSE {})
        \cup (IF vc.sigRan THEN {"signature"} ELSE {})
        \cup (IF vc.claimsRan THEN {"claims"} ELSE {})

\* What makes each gate fail, stated on the token, the key set and the options.
AlgorithmFails == vc.token.hdr.val = "null" \/ vc.token.hdr.alg # ES256

ResolutionFails ==
    IF Truthy(vc.token.hdr.kid)
    THEN \A i \in DOMAIN vc.jwks : vc.jwks[i].kid # vc.token.hdr.kid.s
    ELSE Len(vc.jwks) = 0

ConversionFails == vc.jwk.kty # "EC" \/ vc.jwk.crv # "P-256" \/ vc.coordsThrow

SignatureFails == ~(vc.hashOk /\ SigGoodFor(vc.token, vc.jwk.mat))

ClaimsFail ==
    \/ vc.token.pl.val = "null"
    \/ ExpViolated(vc.token.pl, vc.claimsAt)
    \/ NbfViolated(vc.token.pl, vc.claimsAt)
    \/ ChecksIat(build) /\ IatViolated(vc.token.pl, vc.claimsAt)
    \/ IssViolated(vc.token.pl, vc.options)
    \/ AudViolated(vc.token.pl, vc.options)

\* The gates run in their order up to the first one that fails, whose reason
\* is reported, and no gate runs after it.
GateOrder ==
    IF ~WellFormed(vc.token) THEN Reason(DecodeReasons) /\ GatesRun = {}
    ELSE IF AlgorithmFails THEN Reason(AlgorithmReasons) /\ GatesRun = {}
    ELSE IF vc.cacheReads = 0 THEN FALSE
    ELSE IF ~vc.gotKeys THEN Reason(FetchReasons) /\ GatesRun = {"fetch"}
    ELSE IF ResolutionFails
    THEN Reason(ResolutionReasons) /\ GatesRun = {"fetch", "resolution"}
    ELSE IF ConversionFails
    THEN Reason(ConversionReasons) /\ GatesRun = {"fetch", "resolution"}
    ELSE IF SignatureFails
    THEN Reason(SignatureReasons) /\ GatesRun = {"fetch", "resolution", "signature"}
    ELSE IF ClaimsFail
    THEN Reason(ClaimsReasons) /\ GatesRun = {"fetch", "resolution", "signature", "claims"}
    ELSE ReturnedValid /\ GatesRun = {"fetch", "resolution", "signature", "claims"}

\* C23: verifyJWT passes its gates in the order decode, algorithm check, key
\* set fetch, key resolution, signature verification, claims validation: a
\* gate that fails keeps every later gate from running, and the reason the
\* call reports is that of the first gate that fails.
C23_FirstFailingGateReported == Done => GateOrder

\* What holds: the same of every call in which the log line of the draft
\* revision does not throw.
C23_GateOrderWithoutLogLine ==
    (Done /\ ~(WellFormed(vc.token) /\ LogThrows(build, vc.token.pl))) => GateOrder

\* An expired token with a bad signature is reported as a signature failure,
\* its claims not validated.
C23_Reached ==
    /\ Done
    /\ vc.token = Signed(GoodHdr, Pl(Num(S0 - 1), Undef, Undef, Str("OpenCampus"),
                                     Str("sandbox")), "nobody")
    /\ vc.jwk = K1
    /\ vc.hashOk
    /\ Reason(SignatureReasons)
    /\ ~vc.claimsRan

\* ---------------------------------------------------------------- verifySignature
\* C24: verifySignature fails closed: it returns a boolean, false whenever
\* the signature segment does not decode, decodes to other than 64 bytes,
\* hashing fails or the curve library throws, and true only when (r, s) is an
\* ECDSA signature, under the key, of the SHA-256 digest of the signing input.
C24_FailsClosed ==
    sv.pc = "done" =>
        /\ sv.res \in {"true", "false"}
        /\ ( \/ ~sv.signature.dec
             \/ sv.signature.len # 64
             \/ ~sv.hashOk
             \/ sv.curveThrows ) => sv.res = "false"
        /\ sv.res = "true" =>
                /\ sv.signature.signer = sv.mat
                /\ sv.signature.over = sv.message

\* A signature of the right key over the right message, one byte short.
C24_Witness ==
    /\ sv.pc = "done"
    /\ sv.signature.dec
    /\ sv.signature.len = 63
    /\ sv.signature.signer = sv.mat
    /\ sv.signature.over = sv.message
    /\ sv.hashOk
    /\ ~sv.curveThrows
    /\ sv.res = "false"

\* ---------------------------------------------------------------- key type
\* C25: a resolved key whose kty is not 'EC' or whose crv is not 'P-256' is
\* rejected: verifyJWT returns invalid, naming the key type or the curve, and
\* the signature is verified with no key.
C25_ForeignKeyRejected ==
    (vc.jwk # NoKey /\ (vc.jwk.kty # "EC" \/ vc.jwk.crv # "P-256")) =>
        /\ ReturnedInvalid
        /\ vc.result.error.msg =
                IF vc.jwk.kty # "EC" THEN "Unsupported key type" ELSE "Unsupported curve"
        /\ vc.verified = "false"
        /\ ~vc.sigRan
        /\ vc.sigMat = "none"
        /\ ~vc.claimsRan

\* A token whose kid names the P-384 key of the key set.
C25_Witness ==
    /\ Done
    /\ vc.jwk = KP384
    /\ vc.token = Signed(Hdr(ES256, Str("k4")), GoodPl, "m1")
    /\ vc.result.error.detail = <<"P-384">>

\* ---------------------------------------------------------------- decodeJWT
\* One of the three segments of the token is empty.
EmptySegment(t) == t.hdr.enc = "empty" \/ t.pl.enc = "empty" \/ t.sig = SigEmpty

\* C26: decodeJWT fails for every token that does not split on '.' into
\* exactly three non-empty segments, and for every token whose first or second
\* segment does not base64url-decode to parseable JSON.
C26_MalformedRejected ==
    ( /\ dc.pc = "done"
      /\ \/ dc.token.n # 3
         \/ EmptySegment(dc.token)
         \/ dc.token.hdr.enc # "json"
         \/ dc.token.pl.enc # "json" )
    => ~dc.res.ok

\* C26 as amended: decodeJWT fails for every token that does not split into
\* exactly three segments and for every token whose first or second segment
\* is empty or does not decode to parseable JSON; the third segment is not
\* looked at: empty or not, it is returned as the signature.
C26_MalformedRejectedButSignature ==
    dc.pc = "done" =>
        /\ ( \/ dc.token.n # 3
             \/ dc.token.hdr.enc # "json"
             \/ dc.token.pl.enc # "json" )
            => ~dc.res.ok /\ dc.res.err.msg \in DecodeReasons
        /\ (dc.token.n = 3 /\ dc.token.hdr.enc = "json" /\ dc.token.pl.enc = "json")
            => /\ dc.res.ok
               /\ dc.res.header = dc.token.hdr
               /\ dc.res.payload = dc.token.pl
               /\ dc.res.signature = dc.token.sig

\* A token of three segments whose first is empty.
C26_Witness ==
    /\ dc.pc = "done"
    /\ dc.token.n = 3
    /\ dc.token.hdr = HdrEmpty
    /\ dc.token.pl = GoodPl
    /\ dc.token.sig # SigEmpty
    /\ ~dc.res.ok
    /\ dc.res.err.msg = "Failed to decode JWT"

\* ---------------------------------------------------------------- signing input
\* C27: for every token that decodes, the signing input handed to signature
\* verification is the text of the token up to its second '.', the first two
\* segments as they were received and not an encoding made anew from the
\* parsed header and payload: a signature verifies only if it was made over
\* those very segments.
C27_SigningInputIsTokenText ==
    vc.sigRan =>
        /\ vc.message = <<vc.token.hdr, vc.token.pl>>
        /\ vc.sigOk => vc.token.sig.over = <<vc.token.hdr, vc.token.pl>>

\* A token in another encoding of the same JSON, signed over the first
\* encoding, is rejected for its signature.
C27_Witness ==
    /\ Done
    /\ vc.token = Token(3, HdrOther, PlOther, Sig(TRUE, 64, "m1", SigningInput(GoodHdr, GoodPl)))
    /\ vc.jwk = K1
    /\ vc.hashOk
    /\ vc.message = SigningInput(HdrOther, PlOther)
    /\ Reason(SignatureReasons)

\* ---------------------------------------------------------------- clearJWKSCache
\* clearJWKSCache() is called in this step.
ClearCalled == fj'.calls = fj.calls /\ now' = now /\ (fj' # fj \/ cache' # cache)

\* C28: after clearJWKSCache() the cache holds no entry for any URL, and the
\* next fetchJWKS call for every URL, fetched less than an hour ago or not,
\* sends a network request.
C28_NextFetchAfterClearRequests ==
    [][ /\ ClearCalled => cache' = EmptyCache
        /\ \A i \in Slots :
            (Began(i) /\ fj.cleared[fj'.calls[i].url]) =>
                /\ ~fj'.calls[i].hit
                /\ fj'.calls[i].netRequests = 1 ]_vars

\* What holds: clearJWKSCache() leaves no entry, and a call for a URL that has
\* no entry sends a request; an entry a request in flight stores after the
\* clear is served to the next call.
C28_ClearEmptiesCache ==
    [][ /\ ClearCalled => cache' = EmptyCache
        /\ \A i \in Slots :
            (Began(i) /\ ~cache[fj'.calls[i].url].present) =>
                /\ ~fj'.calls[i].hit
                /\ fj'.calls[i].netRequests = 1 ]_vars

\* A call for the live URL that starts after a clear, one second after the
\* first instant, finds the cache empty and sends its request.
C28_Reached ==
    \E i \in Slots :
        /\ fj.calls[i].pc = "fetching"
        /\ fj.calls[i].url = JWKS_LIVE_URL
        /\ ~fj.calls[i].overlap
        /\ fj.cleared[JWKS_SANDBOX_URL]
        /\ ~fj.cleared[JWKS_LIVE_URL]
        /\ cache = EmptyCache
        /\ now = T0 + 1000

\* ---------------------------------------------------------------- entries per URL
\* Call i acts on the cache in this step: it looks up or stores.
ActsOn(i, u) ==
    \/ Began(i) /\ fj'.calls[i].url = u
    \/ fj.calls[i].pc = "fetching" /\ fj'.calls[i].pc = "done" /\ fj.calls[i].url = u

\* C29: cache entries are keyed by URL and independent: a call that stores,
\* finds stale or fetches anew the entry of its URL leaves the key set and
\* the timestamp of every other URL as they are, and fetchJWKS(url) returns,
\* and the cache keeps under url, only key sets fetched from url.
C29_EntriesPerUrl ==
    [][ /\ \A u \in Urls :
            cache'[u] # cache[u] => ClearCalled \/ \E i \in Slots : ActsOn(i, u)
        /\ \A u \in Urls : cache'[u].present => cache'[u].jwks \in Served(u)
        /\ \A i \in Slots :
            (fj'.calls[i].pc = "done" /\ ~fj'.calls[i].threw) =>
                fj'.calls[i].jwks \in Served(fj'.calls[i].url) ]_vars

\* Both URLs have an entry, stored at different times, and a call for the
\* live URL is served its entry.
C29_Witness ==
    /\ cache[JWKS_SANDBOX_URL].present
    /\ cache[JWKS_LIVE_URL].present
    /\ cache[JWKS_SANDBOX_URL].timestamp < cache[JWKS_LIVE_URL].timestamp
    /\ \E i \in Slots :
        /\ fj.calls[i].pc = "done"
        /\ fj.calls[i].url = JWKS_LIVE_URL
        /\ fj.calls[i].hit
        /\ fj.calls[i].jwks = cache[JWKS_LIVE_URL].jwks
        /\ fj.calls[i].jwks # cache[JWKS_SANDBOX_URL].jwks

\* ---------------------------------------------------------------- login
\* C30: during login the id_token is verified with expected issuer
\* 'OpenCampus' and expected audience the clientId of the SDK instance
\* ('sandbox' for OCAuthSandbox by default), against the key set of the
\* instance, so that the token storage never holds an id_token whose iss is
\* not 'OpenCampus' or whose aud does not contain the clientId.
C30_LoginChecksIssuerAndAudience ==
    /\ vc.caller = "exchange" =>
        /\ vc.options.expectedIssuer = Str("OpenCampus")
        /\ vc.options.expectedAudience = Str(ClientId)
        /\ vc.url = JWKS_SANDBOX_URL
        /\ vc.token = xc.resp.id_token
    /\ storage.present =>
        /\ storage.id_token.pl.iss = Str("OpenCampus")
        /\ AudMember(storage.id_token.pl.aud, Str(ClientId))

\* A login whose id_token is for another audience ends in an AuthError after
\* the claims were validated, and nothing is stored.
C30_Witness ==
    /\ xc.pc = "verifying"
    /\ Done
    /\ vc.caller = "exchange"
    /\ vc.token.pl.aud = Str("other")
    /\ vc.claimsRan
    /\ vc.claimsErrors = <<"Invalid audience">>
    /\ vc.verified = "false"
    /\ ~storage.present

\* ---------------------------------------------------------------- stale entries, failures
\* The request of call i fails in this step.
Failed(i) == fj.calls[i].pc = "fetching" /\ fj'.calls[i].pc = "done" /\ fj'.calls[i].threw

NoEntryHasKid ==
    \A i \in DOMAIN vc.jwks : Str(vc.jwks[i].kid) # vc.token.hdr.kid

\* C39: the fallback to a key chosen without a key identifier is taken only
\* when the header has no kid member; a header that has a kid member,
\* whatever its value, the empty string included, is resolved by kid lookup,
\* and the token is rejected when no entry of the key set has that kid.
C39_FallbackOnlyWithoutKid ==
    ( /\ Done
      /\ WellFormed(vc.token)
      /\ vc.token.hdr.alg = ES256
      /\ vc.gotKeys )
    =>  /\ vc.keyBy = "first" => vc.token.hdr.kid = Undef
        /\ (vc.token.hdr.kid # Undef /\ NoEntryHasKid) =>
                /\ ReturnedInvalid
                /\ vc.result.error.msg = "Key with kid not found in JWKS"
                /\ ~vc.sigRan

\* What holds: the fallback is taken only for a header whose kid is falsy
\* (absent or the empty string), and a header with a truthy kid is resolved by
\* kid lookup and rejected when no entry has that kid.
C39_FallbackOnlyWithFalsyKid ==
    ( /\ Done
      /\ WellFormed(vc.token)
      /\ vc.token.hdr.alg = ES256
      /\ vc.gotKeys )
    =>  /\ vc.keyBy = "first" => ~Truthy(vc.token.hdr.kid)
        /\ Truthy(vc.token.hdr.kid) => vc.keyBy = "kid"
        /\ (Truthy(vc.token.hdr.kid) /\ NoEntryHasKid) =>
                /\ ReturnedInvalid
                /\ vc.result.error.msg = "Key with kid not found in JWKS"
                /\ ~vc.sigRan

\* A token whose kid is the empty string, signed with the first key of a
\* two-key set none of whose entries has the kid '', is accepted.
C39_Reached ==
    /\ ReturnedValid
    /\ vc.token = Signed(Hdr(ES256, Str("")), GoodPl, "m1")
    /\ vc.jwks = <<K1, K2>>
    /\ vc.keyBy = "first"
    /\ vc.jwk = K1

\* ---------------------------------------------------------------- exported verifiers
\* C31: every exported operation that reports a signature or a token as
\* verified has performed the signature check: webcrypto.subtle.verify
\* returns true only for 64 bytes that are an ECDSA signature of the data
\* under the key, and an exported verifyToken returns true only for a token
\* whose signature segment is such a signature of its signing input.
C31_VerifiedMeansSignatureChecked ==
    (ev.pc = "done" /\ ev.res = "true") =>
        /\ ev.op = "subtle.verify" =>
                /\ ev.signature.dec
                /\ ev.signature.len = 64
                /\ EcVerify(Sha256(ev.message), ev.signature, ev.mat)
        /\ ev.op = "verifyToken" =>
                /\ WellFormed(ev.token)
                /\ SigGoodFor(ev.token, ev.mat)

\* webcrypto.subtle.verify has returned true for a signature segment that
\* does not decode, and verifyToken for a token signed by nobody.
C31_Reached ==
    /\ ev.pc = "done"
    /\ ev.res = "true"
    /\ \/ ev.op = "subtle.verify" /\ ~ev.signature.dec /\ ev.signature.signer = "nobody"
       \/ ev.op = "verifyToken" /\ ev.token = Signed(GoodHdr, GoodPl, "nobody")

\* ---------------------------------------------------------------- LoginCallBack
\* The component is shown with a callback url, the context has the instance
\* and isInitialized, and every effect that was due has run.
CallBackSettledDown ==
    /\ cb.mounted
    /\ cb.url # ""
    /\ cb.ocAuth
    /\ cb.isInitialized
    /\ ~cb.effectDue

\* C33: when LoginCallBack is shown with a non-empty callback url,
\* ocAuth.handleLoginRedirect(url) is invoked exactly once: once ocAuth is
\* available and the effects have run it has been invoked, in whatever order
\* ocAuth and url became available, and it is never invoked a second time.
C33_InvokedExactlyOnce ==
    /\ cb.invoked <= 1
    /\ CallBackSettledDown => cb.invoked = 1

\* What holds of the component of the SDK: handleLoginRedirect is invoked at
\* most once, and never after an effect has run.
C33_AtMostOnce ==
    [][ /\ cb'.invoked <= 1
        /\ (cb.revision = "sdk" /\ cb.handledRedirect) => cb'.invoked <= cb.invoked ]_vars

\* What holds of the component of the guide: the statement of C33.
C33_GuideInvokesOnce ==
    cb.revision = "guide" => C33_InvokedExactlyOnce

\* The component of the SDK has run its effect before the context had the
\* instance, and again after: handleLoginRedirect was not invoked.
C33_Reached ==
    /\ cb.revision = "sdk"
    /\ CallBackSettledDown
    /\ cb.handledRedirect
    /\ cb.invoked = 0
    /\ cb.call = "none"

\* ---------------------------------------------------------------- initialize
\* Call i of initialize() starts in this step.
InitializeBegan(i) == oc.ini[i].pc = "idle" /\ oc'.ini[i].pc # "idle"

\* A call of initialize() has returned and the caller has not taken it yet.
InitializeReturned == \E i \in Slots : oc.ini[i].pc = "done"

\* C40: initialize() runs syncAuthInfo at most once per OCAuthCore instance,
\* also when a second initialize() call starts while the first is still
\* awaiting storage; once any initialize() call has returned, initialized is
\* true and later calls do nothing.
C40_InitializeOnce ==
    [][ /\ oc'.syncRuns <= 1
        /\ InitializeReturned' => oc'.initialized
        /\ oc.initialized => oc'.initialized
        /\ \A i \in Slots :
            (InitializeBegan(i) /\ oc.initialized) =>
                oc' = [oc EXCEPT !.ini[i].pc = "done"] ]_vars

\* What holds: syncAuthInfo is run by every initialize() call that starts
\* before a call has set the flag, once per such call; once a call has
\* returned, initialized is true and stays true and later calls do nothing.
C40_InitializeOncePerEarlyCall ==
    [][ /\ oc'.syncRuns <= Cardinality(Slots)
        /\ InitializeReturned' => oc'.initialized
        /\ oc.initialized => oc'.initialized
        /\ \A i \in Slots :
            /\ (InitializeBegan(i) /\ oc.initialized) =>
                    oc' = [oc EXCEPT !.ini[i].pc = "done"]
            /\ (InitializeBegan(i) /\ ~oc.initialized) =>
                    /\ oc'.syncRuns = oc.syncRuns + 1
                    /\ oc'.ini[i].ran ]_vars

\* Two initialize() calls have both run syncAuthInfo: the second started
\* while the first awaited the storage, and the session that the first found
\* expired a second later, so that the second call cleared the auth state
\* the first had set.
C40_Reached ==
    /\ oc.syncRuns = 2
    /\ \A i \in Slots : oc.ini[i].pc = "done" /\ oc.ini[i].ran
    /\ oc.initialized
    /\ ~oc.authState.isAuthenticated
    /\ storage.present
    /\ storage.expired = SoonExp

\* ---------------------------------------------------------------- isAuthenticated
\* The stored object has an access_token and an id_token.
HoldsTokens(st) ==
    /\ st.present
    /\ st.access_token # NoAccess
    /\ st.id_token # IdleCall.token

C34_RoundedUpReached ==
    /\ oc.ia.pc = "done"
    /\ ~oc.ia.res
    /\ oc.ia.read.expired = SoonExp
    /\ oc.ia.at = T0 + 600

\* isAuthenticated() has answered false for a stored session without expired.
C34_NoExpiredReached ==
    /\ oc.ia.pc = "done"
    /\ ~oc.ia.res
    /\ oc.ia.read.present
    /\ oc.ia.read.expired = Undef

\* ---------------------------------------------------------------- login and logout
\* handleLoginRedirect has ended by returning the auth state.
ReturnedAuthState == oc.hl.pc = "done" /\ oc.hl.outcome = "authState"

\* The auth state a is authenticated and carries the tokens of the stored
\* object st.
CarriesTokens(a, st) ==
    /\ a.isAuthenticated
    /\ a.accessToken = st.access_token
    /\ a.idToken = st.id_token

\* C32: when handleLoginRedirect(url) completes without throwing for a URL
\* that carries a code, the auth state it returns is authenticated and
\* carries the access token and id token that were just stored.
C32_ReturnedStateAuthenticated ==
    ReturnedAuthState => CarriesTokens(oc.hl.returned, oc.hl.stored)

\* What holds in the login round trip: the returned state is authenticated
\* with the stored tokens when the stored access token has an exp that the
\* clock has not reached.
C32_AuthenticatedWhenExpAhead ==
    (ReturnedAuthState /\ ~hasExpired(oc.hl.stored, now)) =>
        CarriesTokens(oc.hl.returned, oc.hl.stored)

\* handleLoginRedirect has returned a state that is not authenticated, from a
\* URL with a code, after the exchange stored an id token that was verified
\* and an access token without exp; the tokens are in the storage.
C32_Reached ==
    /\ ReturnedAuthState
    /\ Truthy(oc.hl.url.code)
    /\ oc.hl.returned = NoAuthState
    /\ storage = oc.hl.stored
    /\ storage.present
    /\ storage.expired = Undef

\* The URL is missing, is no URL, or has no (non-empty) code.
CodeLess(u) == ~u.given \/ ~u.parses \/ ~Truthy(u.code)

\* The step leaves token storage, transaction storage and auth state alone.
SessionUntouched ==
    /\ storage' = storage
    /\ tx' = tx
    /\ oc'.authState = oc.authState

\* C36: handleLoginRedirect contacts the token endpoint only when the
\* callback URL parses and carries a code parameter and the stored PKCE
\* transaction carries a codeVerifier; for a missing, unparsable or code-less
\* URL it returns {} and for a missing codeVerifier it throws AuthError, in
\* both cases leaving token storage, transaction storage and auth state
\* unchanged.
C36_ContactsOnlyWithCodeAndVerifier ==
    [][ /\ (xc.pc = "idle" /\ xc'.pc = "posting") =>
            /\ ~CodeLess(oc.hl.url)
            /\ codeVerifierOf(tx)
            /\ oc'.hl.contacted
        /\ (oc.hl.pc = "idle" /\ oc'.hl.pc # "idle" /\ CodeLess(oc'.hl.url)) =>
            /\ oc'.hl.pc = "done"
            /\ oc'.hl.outcome = "{}"
            /\ ~oc'.hl.contacted
            /\ SessionUntouched
        /\ (oc.hl.pc = "idle" /\ oc'.hl.pc # "idle" /\ ~CodeLess(oc'.hl.url)) =>
            /\ oc'.hl.pc = "meta"
            /\ SessionUntouched
        /\ (oc.hl.pc = "meta" /\ oc'.hl.pc # "meta" /\ ~codeVerifierOf(tx)) =>
            /\ oc'.hl.pc = "done"
            /\ oc'.hl.outcome = "AuthError"
            /\ ~oc'.hl.contacted
            /\ xc' = xc
            /\ SessionUntouched ]_vars

\* handleLoginRedirect has returned {} for a string that is no URL, though it
\* has the text of a code parameter and a PKCE transaction is stored.
C36_Witness ==
    /\ oc.hl.pc = "done"
    /\ oc.hl.outcome = "{}"
    /\ oc.hl.url.given
    /\ ~oc.hl.url.parses
    /\ oc.hl.url.code = Str("c1")
    /\ tx = SavedMeta

\* handleLoginRedirect has thrown AuthError for a URL with a code while no
\* PKCE transaction was stored, with a stored session left as it was.
C36_NoVerifierReached ==
    /\ oc.hl.pc = "done"
    /\ oc.hl.outcome = "AuthError"
    /\ ~oc.hl.contacted
    /\ tx = NoTransaction
    /\ storage.present
    /\ oc.authState.isAuthenticated

\* handleLoginRedirect has sent the POST of the exchange.
C36_ContactedReached ==
    /\ oc.hl.pc = "exchange"
    /\ xc.pc = "posting"

\* C37: in the login round trip the PKCE transaction meta is saved before
\* the browser is opened and is cleared only after exchangeTokenFromCode has
\* completed successfully, i.e. after the verified tokens were persisted; when
\* the exchange or the verification fails, the transaction meta stays in
\* storage and the auth state is not re-synced.
C37_MetaSavedFirstClearedAfterExchange ==
    [][ /\ (oc.si.pc # "browser" /\ oc'.si.pc = "browser") => tx' = SavedMeta
        /\ (oc'.lo = oc.lo /\ tx.present /\ ~tx'.present) =>
            /\ oc.hl.pc = "clearTx"
            /\ oc.hl.contacted
            /\ oc.hl.stored.present
            /\ oc.hl.stored.access_token.parses
            /\ oc.hl.stored.id_token = Signed(GoodHdr, GoodPl, "m1")
        /\ (oc.hl.pc = "exchange" /\ oc'.hl.pc # "exchange" /\ xc.outcome # "resolved") =>
            /\ oc'.hl.pc = "done"
            /\ oc'.hl.outcome = "AuthError"
            /\ tx' = tx
            /\ oc'.authState = oc.authState
        /\ (oc'.hl.pc \in SyncSteps \/ oc'.hl.outcome = "authState") =>
            oc'.hl.stored.present ]_vars

\* signInWithRedirect has saved the meta, the browser came back with a code,
\* the exchange stored the tokens and the transaction was cleared.
C37_Witness ==
    /\ oc.si.pc = "handling"
    /\ oc.hl.by = "signIn"
    /\ oc.hl.pc = "sync1"
    /\ tx = NoTransaction
    /\ storage = oc.hl.stored
    /\ storage.present

\* The exchange has failed on an id token nobody signed: handleLoginRedirect
\* has thrown, the transaction meta is still stored, nothing was stored and
\* the auth state is as it was.
C37_FailureReached ==
    /\ oc.hl.pc = "done"
    /\ oc.hl.outcome = "AuthError"
    /\ oc.hl.contacted
    /\ tx = SavedMeta
    /\ storage = NoStorage
    /\ oc.authState = NoAuthState

\* logout() has returned.
LogoutReturned == oc.lo.pc = "done" /\ oc.lo.outcome = "returned"

\* C35: after logout() returns, token storage and transaction storage are
\* empty and the in-memory auth state is cleared, whatever happened in the
\* browser step (success, cancel, dismiss, an exception, or the step being
\* skipped); a failing browser logout neither makes logout() throw nor leaves
\* the local session in place, and isAuthenticated() is false afterwards.
C35_LogoutClearsSession ==
    /\ LogoutReturned =>
        /\ storage = NoStorage
        /\ tx = NoTransaction
        /\ oc.authState = NoAuthState
        /\ hasExpired(storage, now)
    /\ (oc.lo.pc = "done" /\ oc.lo.browser = "throws") => oc.lo.outcome = "returned"

\* What holds: logout's own steps empty the token storage, then the
\* transaction storage and the auth state, before the browser step, and the
\* call returns whatever the browser step ends in; it throws only when the
\* removal of the stored object fails.
C35_LogoutStepsClear ==
    [][ /\ (oc.lo.pc = "clearTokens" /\ oc'.lo.pc = "clearTx") => storage' = NoStorage
        /\ (oc.lo.pc = "clearTx" /\ oc'.lo.pc # "clearTx") =>
            /\ tx' = NoTransaction
            /\ oc'.authState = NoAuthState
            /\ oc'.lo.pc \in {"browser", "done"}
        /\ (oc.lo.pc = "browser" /\ oc'.lo.pc # "browser") =>
            /\ oc'.lo.pc = "done"
            /\ oc'.lo.outcome = "returned"
        /\ (oc.lo.pc # "done" /\ oc'.lo.pc = "done" /\ oc'.lo.outcome # "returned") =>
            /\ oc.lo.pc = "clearTokens"
            /\ storage' = storage ]_vars

\* logout(undefined, true) has returned while a handleLoginRedirect call that
\* was under way before it stored its tokens after the storage was emptied:
\* the stored session is in place and isAuthenticated() would be true.
C35_Reached ==
    /\ LogoutReturned
    /\ oc.lo.browser = "skipped"
    /\ oc.hl.by = "app"
    /\ oc.hl.pc = "exchange"
    /\ xc.outcome = "resolved"
    /\ storage.present
    /\ ~hasExpired(storage, now)

====
